---- MODULE Spec2Model ----
(***************************************************************************)
(* Authentication session lifecycle of the IAM backend: signIn, the        *)
(* AuthenticationGuard (verifyRequest), refresh and signOut over the       *)
(* Mongo session collection, with the JWT codec and the AES-GCM transport  *)
(* crypto they use.  Every await on the session collection is one atomic   *)
(* step; requests interleave between those steps.                          *)
(***************************************************************************)
EXTENDS Integers, FiniteSets, Sequences, TLC

(* ------------------------------ bounds -------------------------------- *)
\* last clock second the model reaches (generateUnixTime is in seconds)
MaxTime == 2
\* number of requests the model lets arrive
MaxRequests == 3
\* configured lifetimes, in seconds, scaled down to the model's clock
AccessTTL == 2
RefreshTTL == 2
SessionTTL == 1
\* a second configuration, in which the access token is the first to expire
\* (as with ACCESS_TOKEN_EXPIRATION=15m and SESSION_EXPIRATION=24h)
ShortAccessTTL == 1
LongSessionTTL == 2
\* longest string, in UTF-16 code units, handed to CryptoService
MaxStringLen == 2
\* longest duration string, in characters, of which every one is tried
MaxDurationLen == 4
\* longest CRYPTO_KEY, in base64 characters (a 32-byte key takes 43)
MaxKeyChars == 48
\* number of createRole and updateRole calls the model lets run
MaxRoleCalls == 3

Users == {"alice", "bob"}
Identifiers == Users \cup {"nobody"}
Passwords == [u \in Users |-> IF u = "alice" THEN "pwA" ELSE "pwB"]
Platforms == {"web", "mobile"}
Nonces == {"n1", "n2"}
\* one slot per request, in order of arrival
Procs == 1..MaxRequests

\* permission codes and role documents of the authorization model
Permissions == {"A", "B"}
RoleIds == {"R1", "R2"}

\* now, sessions, nextId, procs: the clock, the session collection, the next
\* ObjectId and the requests of the authentication model; authz: the user and
\* role documents and the hasPermission call of the authorization model;
\* crypto: a string on its way through CryptoService; config: the configured
\* lifetimes (ConfigService), fixed at startup
VARIABLES now, sessions, nextId, procs, authz, crypto, config
vars == <<now, sessions, nextId, procs, authz, crypto, config>>

\* ACCESS_TOKEN_EXPIRATION, REFRESH_TOKEN_EXPIRATION and SESSION_EXPIRATION
Configuration ==
  [accessTokenExpiration |-> AccessTTL, refreshTokenExpiration |-> RefreshTTL,
   sessionExpiration |-> SessionTTL]
ShortAccessConfiguration ==
  [accessTokenExpiration |-> ShortAccessTTL, refreshTokenExpiration |-> RefreshTTL,
   sessionExpiration |-> LongSessionTTL]

(* ------------------------- strings on the wire ------------------------ *)
\* A string is a tagged record: an ObjectId, a signed JWT, an AES-GCM
\* ciphertext (nonce + plaintext), the empty string, or any other text.
ObjectId(n) == [form |-> "oid", n |-> n]
EmptyString == [form |-> "empty"]
Garbage == [form |-> "garbage"]
NoToken == [form |-> "none"]

\* HTTP errors
Http(code, status) == [code |-> code, status |-> status]
OK == Http("OK", 200)
Unauthorized(code) == Http(code, 401)
InternalServerError == Http("INTERNAL_SERVER_ERROR", 500)
Pending == Http("PENDING", 0)

(* --------------------------- Transport Crypto ------------------------- *)
\* encryptString: base64(iv || tag || ciphertext), iv = randomBytes(12)
encryptString(value, iv) == [form |-> "cipher", nonce |-> iv, plain |-> value]

\* decryptString: authenticated decryption; throws on anything that is not
\* an output of encryptString under the key
decryptString(token) ==
  IF token.form = "cipher"
    THEN [ok |-> TRUE, value |-> token.plain]
    ELSE [ok |-> FALSE, value |-> EmptyString]

(* ------------------------------ Token Codec --------------------------- *)
\* jwtService.sign is deterministic for the HMAC algorithms: the token is a
\* function of its payload {user, iat, exp} (and accessToken for refresh).
generateAccessToken(user, t) ==
  [form |-> "jwt", kind |-> "access", user |-> user, iat |-> t, exp |-> t + config.accessTokenExpiration]

generateRefreshToken(user, accessToken, t) ==
  [form |-> "jwt", kind |-> "refresh", user |-> user, iat |-> t,
   exp |-> t + config.refreshTokenExpiration, accessToken |-> accessToken]

\* jwtService.verifyAsync: structure/signature, then exp against the clock
jwtVerify(token, t) ==
  IF token.form # "jwt" THEN "invalid"
  ELSE IF t >= token.exp THEN "expired"
  ELSE "valid"

verifyAccessToken(accessToken, t) == jwtVerify(accessToken, t) = "valid"

\* verifyRefreshToken: the INVALID_REFRESH_TOKEN thrown inside the try block
\* is caught by the same catch, so every failure is EXPIRED_REFRESH_TOKEN
verifyRefreshToken(refreshToken, accessToken, t) ==
  IF jwtVerify(refreshToken, t) # "valid" THEN Unauthorized("EXPIRED_REFRESH_TOKEN")
  ELSE IF refreshToken.accessToken # accessToken THEN Unauthorized("EXPIRED_REFRESH_TOKEN")
  ELSE OK

(* ------------------------------ Session Store ------------------------- *)
NotDeleted == <<>>

\* soft-delete query middleware of the connection
softDeleteVisible(doc) == TRUE

\* faulty variant: maxAge, which is in milliseconds, taken for seconds
requestToSessionModel_MaxAgeAsSeconds(user, platform, accessToken, refreshToken, t1, t2) ==
  [user |-> user, platform |-> platform,
   accessToken |-> accessToken, refreshToken |-> refreshToken,
   startedAt |-> t1, endsAt |-> t2 + config.sessionExpiration * 1000, deletedAt |-> NotDeleted]

\* CreateSessionModel.requestToSessionModel: startedAt and endsAt are set
\* from two readings of the clock, t1 (line 32) and t2 (line 34);
\* Math.floor(maxAge / 1000) is the configured SESSION_EXPIRATION in seconds
requestToSessionModel(user, platform, accessToken, refreshToken, t1, t2) ==
  [user |-> user, platform |-> platform,
   accessToken |-> accessToken, refreshToken |-> refreshToken,
   startedAt |-> t1, endsAt |-> t2 + config.sessionExpiration, deletedAt |-> NotDeleted]

\* SessionRepositoryService.createSession: save under a fresh ObjectId
createSession(store, id, createSessionModel) ==
  [i \in DOMAIN store \cup {id} |-> IF i = id THEN createSessionModel ELSE store[i]]

\* SessionRepositoryService.findSessionById: findById casts the key to an
\* ObjectId (CastError otherwise) and returns the document or null
findSessionById(store, key) ==
  IF key.form # "oid" THEN "cast_error"
  ELSE IF key.n \in DOMAIN store /\ softDeleteVisible(store[key.n]) THEN "found"
  ELSE "null"

\* faulty variant: the update also restarts the session window
updateSessionTokensAndWindow(store, id, accessToken, refreshToken) ==
  IF id \in DOMAIN store /\ softDeleteVisible(store[id])
    THEN [store EXCEPT ![id].accessToken = accessToken, ![id].refreshToken = refreshToken,
                       ![id].endsAt = accessToken.iat + config.sessionExpiration]
    ELSE store

\* faulty variant: the update writes the access token alone
updateSessionTokens_AccessTokenOnly(store, id, accessToken, refreshToken) ==
  IF id \in DOMAIN store /\ softDeleteVisible(store[id])
    THEN [store EXCEPT ![id].accessToken = accessToken]
    ELSE store

\* SessionRepositoryService.updateSessionTokens: unconditional
\* findByIdAndUpdate, a no-op when no document matches the id
updateSessionTokens(store, id, accessToken, refreshToken) ==
  IF id \in DOMAIN store /\ softDeleteVisible(store[id])
    THEN [store EXCEPT ![id].accessToken = accessToken, ![id].refreshToken = refreshToken]
    ELSE store

\* SessionRepositoryService.deleteSessionById: sets the tombstone
deleteSessionById(store, id, t) ==
  IF id \in DOMAIN store /\ softDeleteVisible(store[id])
    THEN [store EXCEPT ![id].deletedAt = <<t>>]
    ELSE store

\* faulty variant: deleteMany filtered by the user alone
deleteSessionsByUserId(store, userId, platform) ==
  [i \in {j \in DOMAIN store : store[j].user # userId} |-> store[i]]

\* faulty variant: deleteMany that matches no document
deleteNoSessions(store, userId, platform) == store

\* SessionRepositoryService.deleteSessionsByUserIdAndPlatform: deleteMany
deleteSessionsByUserIdAndPlatform(store, userId, platform) ==
  [i \in {j \in DOMAIN store : ~(store[j].user = userId /\ store[j].platform = platform)}
     |-> store[i]]

(* ------------------------------ requests ------------------------------ *)
\* A request: the operation, where it stands, and its locals.  sid, at and rt
\* are the decrypted session id and tokens of a request whose checks on the
\* loaded session passed (a request turned away by them keeps only its
\* result); newAt and newRt are the pair it signed; arg is the raw string
\* signOut was handed; overlap records the refreshes that had read the same
\* session and not yet written when this refresh read it.
Idle ==
  [op |-> "none", pc |-> "idle", user |-> "", platform |-> "", sid |-> 0,
   arg |-> EmptyString, at |-> NoToken, rt |-> NoToken,
   newAt |-> NoToken, newRt |-> NoToken, result |-> Pending, overlap |-> {}]

\* AuthenticationService.generateAuthenticationCredentialsModel
generateAuthenticationCredentialsModel(accessToken, refreshToken, sessionId, n1, n2, n3) ==
  [sessionId |-> encryptString(ObjectId(sessionId), n1),
   accessToken |-> encryptString(accessToken, n2),
   refreshToken |-> encryptString(refreshToken, n3)]

\* the credentials a finished signIn or refresh returns; the three nonces are
\* drawn by encryptString and are not kept by the server
Response(p, n1, n2, n3) ==
  generateAuthenticationCredentialsModel(procs[p].newAt, procs[p].newRt, procs[p].sid, n1, n2, n3)

Finish(p, op, result) ==
  procs' = [procs EXCEPT ![p] = [Idle EXCEPT !.op = op, !.pc = "done", !.result = result]]

\* no hasPermission call is modelled
NoAuthz == [pc |-> "off"]
\* no string is on its way through CryptoService
NoCrypto == [pc |-> "off"]

Init ==
  /\ now = 0
  /\ sessions = <<>>
  /\ nextId = 1
  /\ procs = [p \in Procs |-> Idle]
  /\ authz = NoAuthz
  /\ crypto = NoCrypto
  /\ config = Configuration

\* generateUnixTime advances
Tick ==
  /\ now < MaxTime
  /\ now' = now + 1
  /\ UNCHANGED <<sessions, nextId, procs, authz, crypto, config>>

\* request p arrives: the requests before it have arrived already
Arrives(p) == procs[p].pc = "idle" /\ \A q \in 1..(p - 1) : procs[q].pc # "idle"

(* ------------------------------- signIn ------------------------------- *)
\* faulty variant: signIn that does not compare the password
SignInIssue_NoPasswordCheck(p, identifier, password, platform) ==
  /\ Arrives(p)
  /\ IF identifier \notin Users
       THEN Finish(p, "signIn", Http("INVALID_CREDENTIALS", 404))
     ELSE LET accessToken == generateAccessToken(identifier, now)
              refreshToken == generateRefreshToken(identifier, accessToken, now)
          IN procs' = [procs EXCEPT ![p] =
                [Idle EXCEPT !.op = "signIn", !.pc = "invalidate", !.user = identifier,
                             !.platform = platform, !.newAt = accessToken,
                             !.newRt = refreshToken]]
  /\ UNCHANGED <<now, sessions, nextId, authz, crypto, config>>

\* signIn, lines 70-82: credentials, then the token pair
SignInIssue(p, identifier, password, platform) ==
  /\ Arrives(p)
  /\ IF identifier \notin Users
       THEN Finish(p, "signIn", Http("INVALID_CREDENTIALS", 404))
     ELSE IF Passwords[identifier] # password
       THEN Finish(p, "signIn", Unauthorized("INVALID_CREDENTIALS"))
     ELSE LET accessToken == generateAccessToken(identifier, now)
              refreshToken == generateRefreshToken(identifier, accessToken, now)
          IN procs' = [procs EXCEPT ![p] =
                [Idle EXCEPT !.op = "signIn", !.pc = "invalidate", !.user = identifier,
                             !.platform = platform, !.newAt = accessToken,
                             !.newRt = refreshToken]]
  /\ UNCHANGED <<now, sessions, nextId, authz, crypto, config>>

\* signIn, line 85: invalidateOtherSessions
SignInInvalidate(p) ==
  /\ procs[p].op = "signIn" /\ procs[p].pc = "invalidate"
  /\ sessions' = deleteSessionsByUserIdAndPlatform(sessions, procs[p].user, procs[p].platform)
  /\ procs' = [procs EXCEPT ![p].pc = "create"]
  /\ UNCHANGED <<now, nextId, authz, crypto, config>>

\* signIn, lines 88-100: createSession and the returned credentials.  The
\* clock may pass to the next second between the two readings that
\* requestToSessionModel makes of it.
SignInCreate(p) ==
  /\ procs[p].op = "signIn" /\ procs[p].pc = "create"
  /\ \E elapsed \in {0, 1} :
       /\ now + elapsed <= MaxTime
       /\ now' = now + elapsed
       /\ LET r == procs[p]
              model == requestToSessionModel(r.user, r.platform, r.newAt, r.newRt, now, now')
          IN /\ sessions' = createSession(sessions, nextId, model)
             /\ procs' = [procs EXCEPT ![p].pc = "done", ![p].sid = nextId, ![p].result = OK]
  /\ nextId' = nextId + 1
  /\ UNCHANGED <<authz, crypto, config>>

(* ---------------------- what a client can present -------------------- *)
\* Ciphertexts come from the server only: of a session id it created, or of
\* a token it signed.  Anything else a client sends is the empty string or
\* text that does not decrypt.  AccessTokens and RefreshTokens are all the
\* tokens the server can have signed up to now; the requests of the model
\* present the ones a session stores or a request in the model still holds.
AccessTokens == {generateAccessToken(u, t) : u \in Users, t \in 0..now}
RefreshTokens == {generateRefreshToken(a.user, a, a.iat) : a \in AccessTokens}
HeldAccessTokens ==
  ({sessions[i].accessToken : i \in DOMAIN sessions}
     \cup {procs[p].at : p \in Procs} \cup {procs[p].newAt : p \in Procs}) \ {NoToken}
HeldRefreshTokens ==
  ({sessions[i].refreshToken : i \in DOMAIN sessions}
     \cup {procs[p].rt : p \in Procs} \cup {procs[p].newRt : p \in Procs}) \ {NoToken}
SessionIdStrings == {ObjectId(i) : i \in 1..(nextId - 1)}
\* decryptString drops the nonce, so where the ciphertext is decrypted at
\* once a single nonce stands for all of them
SomeNonce == CHOOSE n \in Nonces : TRUE
Sealed(S) == {encryptString(v, SomeNonce) : v \in S} \cup {Garbage, EmptyString}
Cookies == {encryptString(v, n) : v \in SessionIdStrings, n \in Nonces} \cup {Garbage, EmptyString}
Headers == {[scheme |-> "Bearer", token |-> c] : c \in Sealed(HeldAccessTokens) \ {EmptyString}}
             \cup {[scheme |-> "Basic", token |-> Garbage], [scheme |-> "none", token |-> EmptyString]}

(* ------------------------- AuthenticationGuard ------------------------ *)
\* getAccessToken: the Bearer token of the Authorization header, decrypted
getAccessToken(header) ==
  IF header.scheme = "none" THEN [err |-> Unauthorized("NO_ACCESS_TOKEN"), value |-> NoToken]
  ELSE IF header.scheme # "Bearer" THEN [err |-> Unauthorized("INVALID_ACCESS_TOKEN"), value |-> NoToken]
  ELSE IF ~decryptString(header.token).ok THEN [err |-> InternalServerError, value |-> NoToken]
  ELSE [err |-> OK, value |-> decryptString(header.token).value]

\* getSessionId: the sessionId cookie, decrypted
getSessionId(cookie) ==
  IF cookie = EmptyString THEN [err |-> Unauthorized("INVALID_SESSION_ID"), value |-> EmptyString]
  ELSE IF ~decryptString(cookie).ok THEN [err |-> InternalServerError, value |-> EmptyString]
  ELSE [err |-> OK, value |-> decryptString(cookie).value]

\* faulty variant: the guard without the comparison with the stored access token
guardSessionChecks_NoCompare(session, accessToken, t) ==
  IF session.endsAt < t THEN Unauthorized("SESSION_EXPIRED")
  ELSE IF ~verifyAccessToken(accessToken, t) THEN Unauthorized("EXPIRED_ACCESS_TOKEN")
  ELSE OK

\* faulty variant: the guard verifying the token before comparing it
guardSessionChecks_VerifyFirst(session, accessToken, t) ==
  IF session.endsAt < t THEN Unauthorized("SESSION_EXPIRED")
  ELSE IF ~verifyAccessToken(accessToken, t) THEN Unauthorized("EXPIRED_ACCESS_TOKEN")
  ELSE IF session.accessToken # accessToken THEN Unauthorized("INVALID_ACCESS_TOKEN")
  ELSE OK

\* faulty variant: the guard turning the session away in its last second
guardSessionChecks_EndsAtInclusive(session, accessToken, t) ==
  IF session.endsAt <= t THEN Unauthorized("SESSION_EXPIRED")
  ELSE IF session.accessToken # accessToken THEN Unauthorized("INVALID_ACCESS_TOKEN")
  ELSE IF ~verifyAccessToken(accessToken, t) THEN Unauthorized("EXPIRED_ACCESS_TOKEN")
  ELSE OK

\* canActivate, lines 32-43: the checks on the loaded session
guardSessionChecks(session, accessToken, t) ==
  IF session.endsAt < t THEN Unauthorized("SESSION_EXPIRED")
  ELSE IF session.accessToken # accessToken THEN Unauthorized("INVALID_ACCESS_TOKEN")
  ELSE IF ~verifyAccessToken(accessToken, t) THEN Unauthorized("EXPIRED_ACCESS_TOKEN")
  ELSE OK

\* canActivate: a null session makes session.endsAt throw a TypeError, and a
\* key that is no ObjectId makes findById throw a CastError (both 500)
canActivate(store, cookie, header, t) ==
  LET accessToken == getAccessToken(header)
      sessionId == getSessionId(cookie)
  IN IF accessToken.err # OK THEN accessToken.err
     ELSE IF sessionId.err # OK THEN sessionId.err
     ELSE IF findSessionById(store, sessionId.value) # "found" THEN InternalServerError
     ELSE guardSessionChecks(store[sessionId.value.n], accessToken.value, t)

\* what the guard read from the request, kept with the finished request
Presented(cookie, header) ==
  [sid |-> IF getSessionId(cookie).value.form = "oid" THEN getSessionId(cookie).value.n ELSE 0,
   at |-> getAccessToken(header).value]

\* a route behind AuthenticationGuard: on success request.user is the
\* principal of the token
VerifyRequest(p, cookie, header) ==
  /\ Arrives(p)
  /\ LET result == canActivate(sessions, cookie, header, now)
         seen == Presented(cookie, header)
     IN IF result # OK
          THEN Finish(p, "verify", result)
          ELSE procs' = [procs EXCEPT ![p] =
                 [Idle EXCEPT !.op = "verify", !.pc = "done", !.result = OK, !.sid = seen.sid,
                              !.at = seen.at, !.user = seen.at.user]]
  /\ UNCHANGED <<now, sessions, nextId, authz, crypto, config>>

(* ------------------------------- refresh ------------------------------ *)
\* faulty variant: refresh without the check of the session window
refreshChecks_NoExpiry(store, encryptedSessionId, encryptedAccessToken, encryptedRefreshToken, t) ==
  LET sessionId == decryptString(encryptedSessionId)
      accessToken == decryptString(encryptedAccessToken)
      refreshToken == decryptString(encryptedRefreshToken)
  IN IF encryptedSessionId = EmptyString THEN Unauthorized("INVALID_SESSION_ID")
     ELSE IF encryptedAccessToken = EmptyString THEN Unauthorized("INVALID_ACCESS_TOKEN")
     ELSE IF encryptedRefreshToken = EmptyString THEN Unauthorized("INVALID_REFRESH_TOKEN")
     ELSE IF ~sessionId.ok THEN InternalServerError
     ELSE IF findSessionById(store, sessionId.value) = "cast_error" THEN InternalServerError
     ELSE IF findSessionById(store, sessionId.value) = "null" THEN Unauthorized("SESSION_NOT_FOUND")
     ELSE IF ~accessToken.ok \/ ~refreshToken.ok THEN InternalServerError
     ELSE IF store[sessionId.value.n].accessToken # accessToken.value
       THEN Unauthorized("INVALID_ACCESS_TOKEN")
     ELSE IF store[sessionId.value.n].refreshToken # refreshToken.value
       THEN Unauthorized("INVALID_REFRESH_TOKEN")
     ELSE OK

\* faulty variant: refresh that compares the refresh token first
refreshChecks_RefreshTokenFirst(store, encryptedSessionId, encryptedAccessToken, encryptedRefreshToken, t) ==
  LET sessionId == decryptString(encryptedSessionId)
      accessToken == decryptString(encryptedAccessToken)
      refreshToken == decryptString(encryptedRefreshToken)
  IN IF encryptedSessionId = EmptyString THEN Unauthorized("INVALID_SESSION_ID")
     ELSE IF encryptedAccessToken = EmptyString THEN Unauthorized("INVALID_ACCESS_TOKEN")
     ELSE IF encryptedRefreshToken = EmptyString THEN Unauthorized("INVALID_REFRESH_TOKEN")
     ELSE IF ~sessionId.ok THEN InternalServerError
     ELSE IF findSessionById(store, sessionId.value) = "cast_error" THEN InternalServerError
     ELSE IF findSessionById(store, sessionId.value) = "null" THEN Unauthorized("SESSION_NOT_FOUND")
     ELSE IF store[sessionId.value.n].endsAt < t THEN Unauthorized("SESSION_EXPIRED")
     ELSE IF ~accessToken.ok \/ ~refreshToken.ok THEN InternalServerError
     ELSE IF store[sessionId.value.n].refreshToken # refreshToken.value
       THEN Unauthorized("INVALID_REFRESH_TOKEN")
     ELSE IF store[sessionId.value.n].accessToken # accessToken.value
       THEN Unauthorized("INVALID_ACCESS_TOKEN")
     ELSE OK

\* refresh, lines 186-203: the reads and comparisons on the loaded session
refreshChecks(store, encryptedSessionId, encryptedAccessToken, encryptedRefreshToken, t) ==
  LET sessionId == decryptString(encryptedSessionId)
      accessToken == decryptString(encryptedAccessToken)
      refreshToken == decryptString(encryptedRefreshToken)
  IN IF encryptedSessionId = EmptyString THEN Unauthorized("INVALID_SESSION_ID")
     ELSE IF encryptedAccessToken = EmptyString THEN Unauthorized("INVALID_ACCESS_TOKEN")
     ELSE IF encryptedRefreshToken = EmptyString THEN Unauthorized("INVALID_REFRESH_TOKEN")
     ELSE IF ~sessionId.ok THEN InternalServerError
     ELSE IF findSessionById(store, sessionId.value) = "cast_error" THEN InternalServerError
     ELSE IF findSessionById(store, sessionId.value) = "null" THEN Unauthorized("SESSION_NOT_FOUND")
     ELSE IF store[sessionId.value.n].endsAt < t THEN Unauthorized("SESSION_EXPIRED")
     ELSE IF ~accessToken.ok \/ ~refreshToken.ok THEN InternalServerError
     ELSE IF store[sessionId.value.n].accessToken # accessToken.value
       THEN Unauthorized("INVALID_ACCESS_TOKEN")
     ELSE IF store[sessionId.value.n].refreshToken # refreshToken.value
       THEN Unauthorized("INVALID_REFRESH_TOKEN")
     ELSE OK

\* the triple as refresh decrypted it
Triple(encryptedSessionId, encryptedAccessToken, encryptedRefreshToken) ==
  [sid |-> IF decryptString(encryptedSessionId).ok /\ decryptString(encryptedSessionId).value.form = "oid"
             THEN decryptString(encryptedSessionId).value.n ELSE 0,
   at |-> IF decryptString(encryptedAccessToken).ok
            THEN decryptString(encryptedAccessToken).value ELSE NoToken,
   rt |-> IF decryptString(encryptedRefreshToken).ok
            THEN decryptString(encryptedRefreshToken).value ELSE NoToken]

RefreshRead(p, encryptedSessionId, encryptedAccessToken, encryptedRefreshToken) ==
  /\ Arrives(p)
  /\ LET result == refreshChecks(sessions, encryptedSessionId, encryptedAccessToken,
                                 encryptedRefreshToken, now)
         seen == Triple(encryptedSessionId, encryptedAccessToken, encryptedRefreshToken)
     IN IF result # OK
          THEN Finish(p, "refresh", result)
          ELSE procs' = [procs EXCEPT ![p] =
                 [Idle EXCEPT !.op = "refresh", !.pc = "issue", !.sid = seen.sid,
                              !.at = seen.at, !.rt = seen.rt,
                              !.overlap = {q \in Procs : /\ procs[q].op = "refresh"
                                                         /\ procs[q].pc \in {"issue", "write"}
                                                         /\ procs[q].sid = seen.sid}]]
  /\ UNCHANGED <<now, sessions, nextId, authz, crypto, config>>

\* faulty variant: refresh signing the new pair for another principal
RefreshIssue_OtherPrincipal(p) ==
  /\ procs[p].op = "refresh" /\ procs[p].pc = "issue"
  /\ LET r == procs[p]
         verdict == verifyRefreshToken(r.rt, r.at, now)
         other == CHOOSE u \in Users : u # r.rt.user
         newAccessToken == generateAccessToken(other, now)
         newRefreshToken == generateRefreshToken(other, newAccessToken, now)
     IN IF verdict # OK
          THEN procs' = [procs EXCEPT ![p].pc = "done", ![p].result = verdict]
          ELSE procs' = [procs EXCEPT ![p].pc = "write", ![p].user = other,
                                      ![p].newAt = newAccessToken, ![p].newRt = newRefreshToken]
  /\ UNCHANGED <<now, sessions, nextId, authz, crypto, config>>

\* faulty variant: the new pair is stored before the refresh token is verified
RefreshIssue_StoreBeforeVerify(p) ==
  /\ procs[p].op = "refresh" /\ procs[p].pc = "issue"
  /\ LET r == procs[p]
         verdict == verifyRefreshToken(r.rt, r.at, now)
         newAccessToken == generateAccessToken(r.rt.user, now)
         newRefreshToken == generateRefreshToken(r.rt.user, newAccessToken, now)
     IN /\ sessions' = updateSessionTokens(sessions, r.sid, newAccessToken, newRefreshToken)
        /\ IF verdict # OK
             THEN procs' = [procs EXCEPT ![p].pc = "done", ![p].result = verdict]
             ELSE procs' = [procs EXCEPT ![p].pc = "write", ![p].user = r.rt.user,
                                         ![p].newAt = newAccessToken, ![p].newRt = newRefreshToken]
  /\ UNCHANGED <<now, nextId, authz, crypto, config>>

\* refresh, lines 205-208: verifyRefreshToken, then the new pair for the
\* principal of the refresh token
RefreshIssue(p) ==
  /\ procs[p].op = "refresh" /\ procs[p].pc = "issue"
  /\ LET r == procs[p]
         verdict == verifyRefreshToken(r.rt, r.at, now)
         newAccessToken == generateAccessToken(r.rt.user, now)
         newRefreshToken == generateRefreshToken(r.rt.user, newAccessToken, now)
     IN IF verdict # OK
          THEN procs' = [procs EXCEPT ![p].pc = "done", ![p].result = verdict]
          ELSE procs' = [procs EXCEPT ![p].pc = "write", ![p].user = r.rt.user,
                                      ![p].newAt = newAccessToken, ![p].newRt = newRefreshToken]
  /\ UNCHANGED <<now, sessions, nextId, authz, crypto, config>>

\* refresh, lines 210-212: updateSessionTokens and the returned credentials
RefreshWrite(p) ==
  /\ procs[p].op = "refresh" /\ procs[p].pc = "write"
  /\ sessions' = updateSessionTokens(sessions, procs[p].sid, procs[p].newAt, procs[p].newRt)
  /\ procs' = [procs EXCEPT ![p].pc = "done", ![p].result = OK]
  /\ UNCHANGED <<now, nextId, authz, crypto, config>>

(* ------------------------------- signOut ------------------------------ *)
\* faulty variant: the signOut route without the guard
SignOutRoute_NoGuard(p, cookie, header) ==
  /\ Arrives(p)
  /\ procs' = [procs EXCEPT ![p] =
       [Idle EXCEPT !.op = "signOutRoute", !.pc = "load", !.arg = cookie]]
  /\ UNCHANGED <<now, sessions, nextId, authz, crypto, config>>

\* AuthenticationController.signOut: the guard, then the service is handed
\* request.cookies['sessionId'] as the cookie carries it
SignOutRoute(p, cookie, header) ==
  /\ Arrives(p)
  /\ LET result == canActivate(sessions, cookie, header, now)
         seen == Presented(cookie, header)
     IN IF result # OK
          THEN Finish(p, "signOutRoute", result)
          ELSE procs' = [procs EXCEPT ![p] =
                 [Idle EXCEPT !.op = "signOutRoute", !.pc = "load", !.arg = cookie,
                              !.user = seen.at.user]]
  /\ UNCHANGED <<now, sessions, nextId, authz, crypto, config>>

\* AuthenticationService.signOut called with a session id
SignOutService(p, sessionId) ==
  /\ Arrives(p)
  /\ procs' = [procs EXCEPT ![p] = [Idle EXCEPT !.op = "signOut", !.pc = "load", !.arg = sessionId]]
  /\ UNCHANGED <<now, sessions, nextId, authz, crypto, config>>

\* signOut, lines 216-219
signOutLoad(store, sessionId) ==
  IF sessionId = EmptyString THEN Unauthorized("INVALID_SESSION_ID")
  ELSE IF findSessionById(store, sessionId) = "cast_error" THEN InternalServerError
  ELSE IF findSessionById(store, sessionId) = "null" THEN Unauthorized("SESSION_NOT_FOUND")
  ELSE OK

SignOutLoad(p) ==
  /\ procs[p].op \in {"signOut", "signOutRoute"} /\ procs[p].pc = "load"
  /\ LET result == signOutLoad(sessions, procs[p].arg)
     IN IF result # OK
          THEN procs' = [procs EXCEPT ![p].pc = "done", ![p].result = result]
          ELSE procs' = [procs EXCEPT ![p].pc = "delete", ![p].sid = procs[p].arg.n]
  /\ UNCHANGED <<now, sessions, nextId, authz, crypto, config>>

\* signOut, line 221: deleteSession
SignOutDelete(p) ==
  /\ procs[p].op \in {"signOut", "signOutRoute"} /\ procs[p].pc = "delete"
  /\ sessions' = deleteSessionById(sessions, procs[p].sid, now)
  /\ procs' = [procs EXCEPT ![p].pc = "done", ![p].result = OK]
  /\ UNCHANGED <<now, nextId, authz, crypto, config>>

\* the slot the next request arrives in
NextSlot == {p \in Procs : Arrives(p)}
InFlight == {p \in Procs : procs[p].pc \notin {"idle", "done"}}

Next ==
  \/ Tick
  \/ \E p \in NextSlot, i \in Identifiers, pw \in {"pwA", "pwB"}, x \in Platforms :
       SignInIssue(p, i, pw, x)
  \/ \E p \in InFlight : SignInInvalidate(p)
  \/ \E p \in InFlight : SignInCreate(p)
  \/ \E p \in NextSlot, c \in Sealed(SessionIdStrings), h \in Headers : VerifyRequest(p, c, h)
  \/ \E p \in NextSlot, c \in Sealed(SessionIdStrings), a \in Sealed(HeldAccessTokens),
        r \in Sealed(HeldRefreshTokens) : RefreshRead(p, c, a, r)
  \/ \E p \in InFlight : RefreshIssue(p)
  \/ \E p \in InFlight : RefreshWrite(p)
  \/ \E p \in NextSlot, c \in Cookies, h \in Headers : SignOutRoute(p, c, h)
  \/ \E p \in NextSlot, s \in SessionIdStrings \cup {EmptyString} : SignOutService(p, s)
  \/ \E p \in InFlight : SignOutLoad(p)
  \/ \E p \in InFlight : SignOutDelete(p)

Spec == Init /\ [][Next]_vars

(* ------------- sign-ins one at a time (no two overlap) ---------------- *)
SignInsInFlight == {q \in Procs : procs[q].op = "signIn" /\ procs[q].pc # "done"}

SignInIssueSeq(p, identifier, password, platform) ==
  /\ SignInsInFlight = {}
  /\ SignInIssue(p, identifier, password, platform)

NextSeq ==
  \/ Tick
  \/ \E p \in NextSlot, i \in Identifiers, pw \in {"pwA", "pwB"}, x \in Platforms :
       SignInIssueSeq(p, i, pw, x)
  \/ \E p \in InFlight : SignInInvalidate(p)
  \/ \E p \in InFlight : SignInCreate(p)
  \/ \E p \in NextSlot, c \in Sealed(SessionIdStrings), h \in Headers : VerifyRequest(p, c, h)
  \/ \E p \in NextSlot, c \in Sealed(SessionIdStrings), a \in Sealed(HeldAccessTokens),
        r \in Sealed(HeldRefreshTokens) : RefreshRead(p, c, a, r)
  \/ \E p \in InFlight : RefreshIssue(p)
  \/ \E p \in InFlight : RefreshWrite(p)
  \/ \E p \in NextSlot, c \in Cookies, h \in Headers : SignOutRoute(p, c, h)
  \/ \E p \in NextSlot, s \in SessionIdStrings \cup {EmptyString} : SignOutService(p, s)
  \/ \E p \in InFlight : SignOutLoad(p)
  \/ \E p \in InFlight : SignOutDelete(p)

SpecSeq == Init /\ [][NextSeq]_vars

(* ------------- the configuration with the short access token ---------- *)
InitShortAccess ==
  /\ now = 0
  /\ sessions = <<>>
  /\ nextId = 1
  /\ procs = [p \in Procs |-> Idle]
  /\ authz = NoAuthz
  /\ crypto = NoCrypto
  /\ config = ShortAccessConfiguration

SpecShortAccess == InitShortAccess /\ [][Next]_vars

(* ---------------------------- authorization --------------------------- *)
\* A user document and the role documents, and one call of
\* AuthorizationService.hasPermission(userId, requiredPermissions) on them.
\* The call suspends at the lookup of the user's grants.
UserDocs ==
  [roles : SUBSET RoleIds, includedPermissions : SUBSET Permissions,
   excludedPermissions : SUBSET Permissions, administratorAccess : BOOLEAN]
RoleDocs == [includedPermissions : SUBSET Permissions, excludedPermissions : SUBSET Permissions]

\* outcomes of a call
Returned(value) == [status |-> "returned", value |-> value, error |-> OK]
Threw(error) == [status |-> "threw", value |-> FALSE, error |-> error]
NotReturned == [status |-> "pending", value |-> FALSE, error |-> OK]

InitAuthz ==
  /\ now = 0
  /\ sessions = <<>>
  /\ nextId = 1
  /\ crypto = NoCrypto
  /\ config = Configuration
  /\ procs = [p \in Procs |-> Idle]
  /\ \E user \in UserDocs, roles \in [RoleIds -> RoleDocs] :
       authz = [pc |-> "idle", user |-> user, roles |-> roles, userId |-> "",
                required |-> {}, credentials |-> NoAuthz, result |-> NotReturned]

\* the projection { roles: 1, includedPermissions: 1, excludedPermissions: 1 }
\* of findById: the hydrated document has no administratorAccess (undefined)
projectAuthorizationFields(doc) ==
  [roles |-> doc.roles, includedPermissions |-> doc.includedPermissions,
   excludedPermissions |-> doc.excludedPermissions, administratorAccess |-> FALSE]

\* UserEntity.toAuthorizationCredentialsModel on a document whose roles are
\* populated or not: it throws when there are roles and all are ObjectIds
toAuthorizationCredentialsModel(doc, roles, populated) ==
  IF doc.roles # {} /\ ~populated
    THEN Threw(InternalServerError)
    ELSE Returned([roles |-> {roles[r] : r \in doc.roles},
                   includedPermissions |-> doc.includedPermissions,
                   excludedPermissions |-> doc.excludedPermissions,
                   administratorAccess |-> doc.administratorAccess])

\* UserRepositoryService.findUserAuthorizationCredentialsById: findById with
\* the projection; userEntity.populate('roles') is not awaited, so the roles
\* are still ObjectIds when the next line converts the document.  A null
\* document makes userEntity.populate throw a TypeError.
findUserAuthorizationCredentialsById(userId, user, roles) ==
  IF userId # "alice"
    THEN Threw(InternalServerError)
    ELSE toAuthorizationCredentialsModel(projectAuthorizationFields(user), roles, FALSE)

\* faulty variant: the exclusions of the roles are ignored
hasPermissionDecision_IgnoreRoleExclusions(credentials, requiredPermissions) ==
  IF credentials.administratorAccess THEN TRUE
  ELSE LET userExcluded == credentials.excludedPermissions
           userIncluded == credentials.includedPermissions
           roleIncluded == UNION {r.includedPermissions : r \in credentials.roles}
           effective == roleIncluded \cup (userIncluded \ userExcluded)
       IN IF requiredPermissions \cap userExcluded # {} THEN FALSE
          ELSE requiredPermissions \subseteq effective

\* hasPermission, lines 176-190: the decision on the loaded grants
hasPermissionDecision(credentials, requiredPermissions) ==
  IF credentials.administratorAccess THEN TRUE
  ELSE LET userExcluded == credentials.excludedPermissions
           userIncluded == credentials.includedPermissions
           roleExcluded == UNION {r.excludedPermissions : r \in credentials.roles}
           roleIncluded == UNION {r.includedPermissions : r \in credentials.roles}
           effective == (roleIncluded \ roleExcluded) \cup (userIncluded \ userExcluded)
       IN IF requiredPermissions \cap (userExcluded \cup roleExcluded) # {} THEN FALSE
          ELSE requiredPermissions \subseteq effective

\* faulty variant: hasPermission without the early return on an empty set
HasPermissionCall_NoEmptyCheck(userId, requiredPermissions) ==
  /\ authz.pc = "idle"
  /\ authz' = [authz EXCEPT !.pc = "lookup", !.userId = userId,
                            !.required = requiredPermissions]
  /\ UNCHANGED <<now, sessions, nextId, procs, crypto, config>>

\* hasPermission, line 171: an empty required set is granted at once
HasPermissionCall(userId, requiredPermissions) ==
  /\ authz.pc = "idle"
  /\ IF requiredPermissions = {}
       THEN authz' = [authz EXCEPT !.pc = "done", !.userId = userId,
                                   !.required = requiredPermissions,
                                   !.result = Returned(TRUE)]
       ELSE authz' = [authz EXCEPT !.pc = "lookup", !.userId = userId,
                                   !.required = requiredPermissions]
  /\ UNCHANGED <<now, sessions, nextId, procs, crypto, config>>

\* hasPermission, lines 173-174: getUserAuthorizationCredentials
HasPermissionLookup ==
  /\ authz.pc = "lookup"
  /\ LET found == findUserAuthorizationCredentialsById(authz.userId, authz.user, authz.roles)
     IN IF found.status = "threw"
          THEN authz' = [authz EXCEPT !.pc = "done", !.result = found]
          ELSE authz' = [authz EXCEPT !.pc = "decide", !.credentials = found.value]
  /\ UNCHANGED <<now, sessions, nextId, procs, crypto, config>>

\* hasPermission, lines 176-190
HasPermissionDecide ==
  /\ authz.pc = "decide"
  /\ authz' = [authz EXCEPT !.pc = "done",
                 !.result = Returned(hasPermissionDecision(authz.credentials, authz.required))]
  /\ UNCHANGED <<now, sessions, nextId, procs, crypto, config>>

NextAuthz ==
  \/ \E u \in {"alice", "nobody"}, required \in SUBSET Permissions : HasPermissionCall(u, required)
  \/ HasPermissionLookup
  \/ HasPermissionDecide

SpecAuthz == InitAuthz /\ [][NextAuthz]_vars

(* -------------------------- AuthorizationGuard ------------------------ *)
\* request.requiredPermissions as the guard reads it: SetRequiredPermissions
\* stores the declared set as metadata of the route handler (SetMetadata) and
\* nothing copies it to the request, so the property is undefined
requestRequiredPermissions(declared) == [defined |-> FALSE, value |-> {}]

\* hasPermission as one call: line 171 reads requiredPermissions.length,
\* a TypeError on undefined
hasPermission(userId, requiredPermissions, user, roles) ==
  IF ~requiredPermissions.defined THEN Threw(InternalServerError)
  ELSE IF requiredPermissions.value = {} THEN Returned(TRUE)
  ELSE LET found == findUserAuthorizationCredentialsById(userId, user, roles)
       IN IF found.status = "threw" THEN found
          ELSE Returned(hasPermissionDecision(found.value, requiredPermissions.value))

Forbidden == Http("FORBIDDEN", 403)

\* canActivate, lines 24-25: false is answered FORBIDDEN, true lets the
\* handler run; an exception of hasPermission passes through
guardOutcome(outcome) ==
  IF outcome.status = "threw" THEN outcome
  ELSE IF ~outcome.value THEN Threw(Forbidden)
  ELSE Returned(TRUE)

\* a request of the authenticated user userId to a route declared with
\* SetRequiredPermissions(declared) behind AuthorizationGuard
InitGuard ==
  /\ now = 0
  /\ sessions = <<>>
  /\ nextId = 1
  /\ crypto = NoCrypto
  /\ config = Configuration
  /\ procs = [p \in Procs |-> Idle]
  /\ \E user \in UserDocs, roles \in [RoleIds -> RoleDocs] :
       authz = [pc |-> "idle", user |-> user, roles |-> roles, userId |-> "",
                declared |-> {}, result |-> NotReturned]

\* AuthorizationGuard.canActivate, lines 18-26
AuthorizationGuardCanActivate(userId, declared) ==
  /\ authz.pc = "idle"
  /\ LET requiredPermissions == requestRequiredPermissions(declared)
         outcome == hasPermission(userId, requiredPermissions, authz.user, authz.roles)
     IN authz' = [authz EXCEPT !.pc = "done", !.userId = userId, !.declared = declared,
                               !.result = guardOutcome(outcome)]
  /\ UNCHANGED <<now, sessions, nextId, procs, crypto, config>>

NextGuard ==
  \E u \in {"alice", "nobody"}, declared \in SUBSET Permissions :
    AuthorizationGuardCanActivate(u, declared)

SpecGuard == InitGuard /\ [][NextGuard]_vars

(* ----------------------- CryptoService, byte level -------------------- *)
\* The tagged-record form of encryptString / decryptString above stands on
\* two properties of the service: the round trip, and the rejection of a
\* changed token.  Here the service is modelled on bytes, scaled down: a byte
\* has 4 bits, a base64 character 3 bits (3 bytes are 4 characters, as in
\* base64), the iv and the auth tag are one byte each, and AES-GCM is counter
\* mode over a permutation of the bytes with a GHASH tag over GF(2^4).
Bytes == 0..15

\* a JavaScript string is a sequence of UTF-16 code units: "a" is an ASCII
\* character, "R" is U+FFFD, "H" and "L" are a high and a low surrogate
CodeUnits == {"a", "R", "H", "L"}
Strings == UNION {[1..n -> CodeUnits] : n \in 0..MaxStringLen}

\* the bytes of U+FFFD
ReplacementBytes == <<14, 9>>

\* cipher.update(value, 'utf8'): "a" is one byte, a surrogate pair is the
\* multi-byte form of its character, U+FFFD is its own bytes, and a
\* surrogate without its partner is written as U+FFFD
RECURSIVE utf8Encode(_)
utf8Encode(value) ==
  IF value = <<>> THEN <<>>
  ELSE IF Head(value) = "a" THEN <<1>> \o utf8Encode(Tail(value))
  ELSE IF Head(value) = "H" /\ Len(value) >= 2 /\ value[2] = "L"
    THEN <<15, 8>> \o utf8Encode(Tail(Tail(value)))
  ELSE ReplacementBytes \o utf8Encode(Tail(value))

\* decrypted.toString('utf8'): the inverse on well-formed bytes; a byte
\* that starts no character the model writes decodes to another ASCII
\* character ("?") or to U+FFFD
RECURSIVE utf8Decode(_)
utf8Decode(bytes) ==
  IF bytes = <<>> THEN <<>>
  ELSE IF Head(bytes) = 1 THEN <<"a">> \o utf8Decode(Tail(bytes))
  ELSE IF Head(bytes) < 8 THEN <<"?">> \o utf8Decode(Tail(bytes))
  ELSE IF Len(bytes) >= 2 /\ Head(bytes) = 15 /\ bytes[2] = 8
    THEN <<"H", "L">> \o utf8Decode(Tail(Tail(bytes)))
  ELSE IF Len(bytes) >= 2 /\ Head(bytes) = 14 /\ bytes[2] = 9
    THEN <<"R">> \o utf8Decode(Tail(Tail(bytes)))
  ELSE <<"R">> \o utf8Decode(Tail(bytes))

\* bitwise exclusive or
RECURSIVE xor(_, _)
xor(a, b) ==
  IF a = 0 THEN b
  ELSE IF b = 0 THEN a
  ELSE ((a + b) % 2) + 2 * xor(a \div 2, b \div 2)

\* multiplication in GF(2^4) modulo x^4 + x + 1
xtime(a) == IF a >= 8 THEN xor((2 * a) % 16, 3) ELSE 2 * a
RECURSIVE gmul(_, _)
gmul(a, b) ==
  IF b = 0 THEN 0
  ELSE xor(IF b % 2 = 1 THEN a ELSE 0, gmul(xtime(a), b \div 2))

\* the block cipher under this.key: a permutation of the blocks
blockCipher(block) == (5 * block + 3) % 16

\* GHASH under the hash key blockCipher(0): the ciphertext blocks, then
\* the length block
RECURSIVE ghashBlocks(_, _)
ghashBlocks(y, blocks) ==
  IF blocks = <<>> THEN y
  ELSE ghashBlocks(gmul(xor(y, Head(blocks)), blockCipher(0)), Tail(blocks))
ghash(encrypted) == ghashBlocks(0, encrypted \o <<Len(encrypted) % 16>>)

\* counter mode: block i of the key stream is the encryption of iv + i
gcmCrypt(iv, data) == [i \in 1..Len(data) |-> xor(data[i], blockCipher((iv + i) % 16))]
\* cipher.getAuthTag(): the GHASH of the ciphertext masked by the
\* encryption of the first counter block
gcmTag(iv, encrypted) == xor(ghash(encrypted), blockCipher(iv))

\* Buffer.toString('base64') and Buffer.from(token, 'base64'): the bits of
\* the bytes cut into characters, the last one filled up with zero bits;
\* decoding drops the bits that fill no byte
byteToBits(b) == <<(b \div 8) % 2, (b \div 4) % 2, (b \div 2) % 2, b % 2>>
RECURSIVE bytesToBits(_)
bytesToBits(bytes) ==
  IF bytes = <<>> THEN <<>> ELSE byteToBits(Head(bytes)) \o bytesToBits(Tail(bytes))
bitsToBytes(bits) ==
  [i \in 1..(Len(bits) \div 4) |->
     8 * bits[4 * i - 3] + 4 * bits[4 * i - 2] + 2 * bits[4 * i - 1] + bits[4 * i]]
toBase64(bytes) ==
  LET bits == bytesToBits(bytes)
      padded == bits \o [i \in 1..((3 - (Len(bits) % 3)) % 3) |-> 0]
  IN [i \in 1..(Len(padded) \div 3) |->
        4 * padded[3 * i - 2] + 2 * padded[3 * i - 1] + padded[3 * i]]
RECURSIVE base64ToBits(_)
base64ToBits(token) ==
  IF token = <<>> THEN <<>>
  ELSE <<(Head(token) \div 4) % 2, (Head(token) \div 2) % 2, Head(token) % 2>>
         \o base64ToBits(Tail(token))
fromBase64(token) == bitsToBytes(base64ToBits(token))

\* faulty variant: the token laid out as tag, iv, ciphertext
encryptStringBytes_TagFirst(value, iv) ==
  LET encrypted == gcmCrypt(iv, utf8Encode(value))
      authTag == gcmTag(iv, encrypted)
  IN toBase64(<<authTag, iv>> \o encrypted)

\* CryptoService.encryptString with iv = randomBytes(...)
encryptStringBytes(value, iv) ==
  LET encrypted == gcmCrypt(iv, utf8Encode(value))
      authTag == gcmTag(iv, encrypted)
  IN toBase64(<<iv, authTag>> \o encrypted)

\* outcomes of decryptString
Decrypted(value) == [ok |-> TRUE, value |-> value]
DecryptFailed == [ok |-> FALSE, value |-> <<>>]

\* faulty variant: decryption that does not compare the auth tag
decryptStringBytes_NoAuthTag(token) ==
  LET raw == fromBase64(token)
  IN IF Len(raw) < 2 THEN DecryptFailed
     ELSE Decrypted(utf8Decode(gcmCrypt(raw[1], SubSeq(raw, 3, Len(raw)))))

\* CryptoService.decryptString: decipher.final() throws when the tag set by
\* setAuthTag is not the tag of the iv and the ciphertext
decryptStringBytes(token) ==
  LET raw == fromBase64(token)
  IN IF Len(raw) < 2 THEN DecryptFailed
     ELSE LET iv == raw[1]
              authTag == raw[2]
              encrypted == SubSeq(raw, 3, Len(raw))
          IN IF authTag # gcmTag(iv, encrypted) THEN DecryptFailed
             ELSE Decrypted(utf8Decode(gcmCrypt(iv, encrypted)))

\* the token with bit k of its bytes (iv, tag, ciphertext) flipped
flipBit(token, k) ==
  LET bits == bytesToBits(fromBase64(token))
  IN toBase64(bitsToBytes([bits EXCEPT ![k] = 1 - @]))

\* a string is encrypted, the token may be changed in one bit on its way,
\* and it is decrypted
InitCrypto ==
  /\ now = 0
  /\ sessions = <<>>
  /\ nextId = 1
  /\ procs = [p \in Procs |-> Idle]
  /\ config = Configuration
  /\ authz = NoAuthz
  /\ \E value \in Strings :
       crypto = [pc |-> "plain", value |-> value, token |-> <<>>, flipped |-> 0,
                 result |-> DecryptFailed]

EncryptString(iv) ==
  /\ crypto.pc = "plain"
  /\ crypto' = [crypto EXCEPT !.pc = "sealed", !.token = encryptStringBytes(crypto.value, iv)]
  /\ UNCHANGED <<now, sessions, nextId, procs, authz, config>>

FlipBit(k) ==
  /\ crypto.pc = "sealed" /\ crypto.flipped = 0
  /\ k \in 1..(4 * Len(fromBase64(crypto.token)))
  /\ crypto' = [crypto EXCEPT !.token = flipBit(crypto.token, k), !.flipped = k]
  /\ UNCHANGED <<now, sessions, nextId, procs, authz, config>>

DecryptString ==
  /\ crypto.pc = "sealed"
  /\ crypto' = [crypto EXCEPT !.pc = "opened", !.result = decryptStringBytes(crypto.token)]
  /\ UNCHANGED <<now, sessions, nextId, procs, authz, config>>

NextCrypto ==
  \/ \E iv \in Bytes : EncryptString(iv)
  \/ \E k \in 1..(4 * (2 + 2 * MaxStringLen)) : FlipBit(k)
  \/ DecryptString

SpecCrypto == InitCrypto /\ [][NextCrypto]_vars

(* ------------------- timeToSeconds and the cookie options -------------- *)
\* A duration string is a sequence of characters; what configService.get
\* hands over is that string, or undefined when the variable is not set (a
\* number, written by its digits, stands for the values that are no string).
DurationChars == {"1", "4", ".", "m", "s", " ", "x", "M"}
DigitChars == {"0", "1", "2", "3", "4", "5", "6", "7", "8", "9"}
digitValue(c) ==
  CASE c = "0" -> 0 [] c = "1" -> 1 [] c = "2" -> 2 [] c = "3" -> 3
    [] c = "4" -> 4 [] c = "5" -> 5 [] c = "6" -> 6 [] c = "7" -> 7
    [] c = "8" -> 8 [] c = "9" -> 9

JsString(chars) == [type |-> "string", value |-> chars]

\* the settings of the README and the examples of the function's header
ReadmeSession == JsString(<<"2", "4", "h">>)
ReadmeAccess == JsString(<<"1", "5", "m">>)
ReadmeRefresh == JsString(<<"7", "d">>)
DurationExamples ==
  { <<"3", "m">>, <<"2", "h", " ", "3", "0", "m">>,
    <<"1", "d", " ", "2", "h", " ", "3", "0", "m", " ", "1", "5", "s">>,
    <<"1", "w">>, <<"4", ".", "1", " ", "m">>, <<"0", ".", "5", "h">>,
    <<"1", "h", " ", "1", "H">>, <<"2", ".", "0", "5", "m">> }
DurationInputs ==
  { JsString(chars) :
      chars \in DurationExamples
                  \cup UNION { [1..n -> DurationChars] : n \in 0..MaxDurationLen } }
    \cup { [type |-> "undefined", value |-> <<>>],
           [type |-> "number", value |-> <<"9", "0", "0">>],
           ReadmeSession, ReadmeAccess, ReadmeRefresh }

\* lines 24-30
timeUnits == [s |-> 1, m |-> 60, h |-> 3600, d |-> 86400, w |-> 604800]

\* String.prototype.toLowerCase and trim, line 33
toLowerCase(chars) ==
  [k \in 1..Len(chars) |->
     CASE chars[k] = "M" -> "m" [] chars[k] = "S" -> "s" [] chars[k] = "H" -> "h"
       [] chars[k] = "D" -> "d" [] chars[k] = "W" -> "w" [] OTHER -> chars[k]]
RECURSIVE trim(_)
trim(chars) ==
  IF chars # <<>> /\ Head(chars) = " " THEN trim(Tail(chars))
  ELSE IF chars # <<>> /\ chars[Len(chars)] = " "
    THEN trim(SubSeq(chars, 1, Len(chars) - 1))
  ELSE chars

\* /(\d+(?:\.\d+)?)\s*([smhdw])/g, line 36.  digitsEnd and spacesEnd are the
\* greedy \d+ and \s*: the position after the longest run starting at i.
\* Giving back a character of a run never helps the pattern, since the
\* character given back is a digit (or a space) and what follows in the
\* pattern accepts neither a digit nor, after \s*, a space.
RECURSIVE digitsEnd(_, _)
digitsEnd(chars, i) ==
  IF i <= Len(chars) /\ chars[i] \in DigitChars THEN digitsEnd(chars, i + 1) ELSE i
RECURSIVE spacesEnd(_, _)
spacesEnd(chars, i) ==
  IF i <= Len(chars) /\ chars[i] = " " THEN spacesEnd(chars, i + 1) ELSE i
NoMatch == [matched |-> FALSE, number |-> <<>>, unit |-> "", end |-> 0]
matchAt(chars, i) ==
  LET a == digitsEnd(chars, i)
      b == IF a <= Len(chars) /\ chars[a] = "." /\ digitsEnd(chars, a + 1) > a + 1
             THEN digitsEnd(chars, a + 1) ELSE a
      c == spacesEnd(chars, b)
  IN IF a > i /\ c <= Len(chars) /\ chars[c] \in DOMAIN timeUnits
       THEN [matched |-> TRUE, number |-> SubSeq(chars, i, b - 1),
             unit |-> chars[c], end |-> c + 1]
       ELSE NoMatch
\* matchAll, line 37: the matches from left to right, each search starting
\* where the previous match ended
RECURSIVE matchAll(_, _)
matchAll(chars, i) ==
  IF i > Len(chars) THEN <<>>
  ELSE LET m == matchAt(chars, i)
       IN IF m.matched THEN <<m>> \o matchAll(chars, m.end)
          ELSE matchAll(chars, i + 1)

\* ---- IEEE 754 binary64, the Number type of parseFloat, * and += ----
\* A double of the size handled here is an integer part and FractionBits
\* binary places, held as bytes (8 places each, most significant first), of
\* which at most MantissaBits consecutive bits starting at the leading one
\* are kept.
MantissaBits == 53
FractionBits == 64
\* the k-th binary place
place(frac, k) == (frac[((k - 1) \div 8) + 1] \div 2^(7 - ((k - 1) % 8))) % 2
RECURSIVE bitLength(_)
bitLength(n) == IF n = 0 THEN 0 ELSE 1 + bitLength(n \div 2)
\* the first n bytes of binary places of rem / d, and what is left after them
RECURSIVE binaryPlaces(_, _, _)
binaryPlaces(rem, d, n) ==
  IF n = 0 THEN <<>>
  ELSE <<(256 * rem) \div d>> \o binaryPlaces((256 * rem) % d, d, n - 1)
RECURSIVE remainderAfter(_, _, _)
remainderAfter(rem, d, n) ==
  IF n = 0 THEN rem ELSE remainderAfter((256 * rem) % d, d, n - 1)
\* f + g from the last byte up, as the places and the carry into the
\* integer part
RECURSIVE plusPlaces(_, _, _, _)
plusPlaces(f, g, i, carry) ==
  IF i = 0 THEN [frac |-> f, carry |-> carry]
  ELSE LET t == f[i] + g[i] + carry
       IN plusPlaces([f EXCEPT ![i] = t % 256], g, i - 1, t \div 256)
\* frac * n from the last byte up, as the places and the carry
RECURSIVE timesPlaces(_, _, _, _)
timesPlaces(frac, n, i, carry) ==
  IF i = 0 THEN [frac |-> frac, carry |-> carry]
  ELSE LET t == frac[i] * n + carry
       IN timesPlaces([frac EXCEPT ![i] = t % 256], n, i - 1, t \div 256)
\* the first place that is 1 (0: none)
leadingPlace(frac) ==
  IF \A k \in 1..FractionBits : place(frac, k) = 0 THEN 0
  ELSE CHOOSE k \in 1..FractionBits :
         place(frac, k) = 1 /\ \A j \in 1..(k - 1) : place(frac, j) = 0
\* round to nearest, ties to even, at MantissaBits significant bits; sticky
\* tells that the exact value has more non-zero places than frac holds
roundToDouble(int, frac, sticky) ==
  LET lead == leadingPlace(frac)
      \* the last place kept (0: the unit bit of the integer part)
      last == IF int > 0 THEN MantissaBits - bitLength(int)
              ELSE lead + MantissaBits - 1
  IN IF (int = 0 /\ lead = 0) \/ last >= FractionBits THEN [int |-> int, frac |-> frac]
     ELSE LET guard == place(frac, last + 1)
              rest == sticky \/ \E k \in (last + 2)..FractionBits : place(frac, k) = 1
              odd == IF last = 0 THEN int % 2 = 1 ELSE place(frac, last) = 1
              \* the places up to the last one kept
              kept == [i \in 1..Len(frac) |->
                         IF 8 * i <= last THEN frac[i]
                         ELSE IF 8 * (i - 1) >= last THEN 0
                         ELSE (frac[i] \div 2^(8 * i - last)) * 2^(8 * i - last)]
              \* one unit in the last place kept
              ulp == [i \in 1..Len(frac) |->
                        IF 8 * (i - 1) < last /\ last <= 8 * i
                          THEN 2^(8 * i - last) ELSE 0]
              up == IF last = 0 THEN [frac |-> kept, carry |-> 1]
                    ELSE plusPlaces(kept, ulp, Len(frac), 0)
          IN IF guard = 1 /\ (rest \/ odd)
               THEN [int |-> int + up.carry, frac |-> up.frac]
               ELSE [int |-> int, frac |-> kept]
\* parseFloat of digits with an optional fraction, line 47: the double
\* nearest to the decimal
RECURSIVE digitsValue(_)
digitsValue(digits) ==
  IF digits = <<>> THEN 0
  ELSE 10 * digitsValue(SubSeq(digits, 1, Len(digits) - 1))
         + digitValue(digits[Len(digits)])
RECURSIVE powerOfTen(_)
powerOfTen(n) == IF n = 0 THEN 1 ELSE 10 * powerOfTen(n - 1)
\* the decimal as numerator over a power of ten
decimalOf(number) ==
  LET a == digitsEnd(number, 1)
      whole == SubSeq(number, 1, a - 1)
      places == SubSeq(number, a + 1, Len(number))
  IN [numerator |-> digitsValue(whole \o places),
      denominator |-> powerOfTen(Len(places))]
parseFloat(number) ==
  LET dec == decimalOf(number)
      rem == dec.numerator % dec.denominator
  IN roundToDouble(dec.numerator \div dec.denominator,
                   binaryPlaces(rem, dec.denominator, FractionBits \div 8),
                   remainderAfter(rem, dec.denominator, FractionBits \div 8) # 0)
\* value * timeUnits[unit], line 59
doubleTimes(x, n) ==
  LET p == timesPlaces(x.frac, n, Len(x.frac), 0)
  IN roundToDouble(x.int * n + p.carry, p.frac, FALSE)
\* totalSeconds += ..., line 59
doublePlus(x, y) ==
  LET p == plusPlaces(x.frac, y.frac, Len(x.frac), 0)
  IN roundToDouble(x.int + y.int + p.carry, p.frac, FALSE)
DoubleZero == [int |-> 0, frac |-> [i \in 1..(FractionBits \div 8) |-> 0]]
\* Math.floor of a non-negative double, line 62
mathFloor(x) == x.int

Error(message) == Http(message, 500)
\* lines 46-60: the loop over the matches.  The pattern admits digits only,
\* so that value is neither NaN nor negative and line 51 is never reached.
RECURSIVE sumMatches(_, _, _, _)
sumMatches(matches, k, usedUnits, totalSeconds) ==
  IF k > Len(matches) THEN Returned(mathFloor(totalSeconds))
  ELSE LET value == parseFloat(matches[k].number)
           unit == matches[k].unit
       IN IF unit \in usedUnits THEN Threw(Error("Duplicate time unit"))
          ELSE sumMatches(matches, k + 1, usedUnits \cup {unit},
                          doublePlus(totalSeconds, doubleTimes(value, timeUnits[unit])))

\* time-to-seconds.ts, lines 19-63
timeToSeconds(timeString) ==
  IF timeString.type # "string" \/ timeString.value = <<>>
    THEN Threw(Error("Invalid time string provided"))
  ELSE LET cleanedString == toLowerCase(trim(timeString.value))
           matches == matchAll(cleanedString, 1)
       IN IF Len(matches) = 0 THEN Threw(Error("Invalid time format"))
          ELSE sumMatches(matches, 1, {}, DoubleZero)

NotConstructed == [status |-> "pending"]
EnvKeys == {"SESSION_EXPIRATION", "ACCESS_TOKEN_EXPIRATION", "REFRESH_TOKEN_EXPIRATION"}
\* the environment before AuthenticationService is constructed: one of the
\* three durations is any input, the other two are as in the README
InitDuration ==
  /\ now = 0
  /\ sessions = <<>>
  /\ nextId = 1
  /\ procs = [p \in Procs |-> Idle]
  /\ authz = NoAuthz
  /\ crypto = NoCrypto
  /\ \E key \in EnvKeys, timeString \in DurationInputs :
       config = [pc |-> "env", key |-> key,
                 SESSION_EXPIRATION |->
                   IF key = "SESSION_EXPIRATION" THEN timeString ELSE ReadmeSession,
                 ACCESS_TOKEN_EXPIRATION |->
                   IF key = "ACCESS_TOKEN_EXPIRATION" THEN timeString ELSE ReadmeAccess,
                 REFRESH_TOKEN_EXPIRATION |->
                   IF key = "REFRESH_TOKEN_EXPIRATION" THEN timeString ELSE ReadmeRefresh,
                 sessionCookieOptions |-> NotConstructed,
                 accessTokenCookieOptions |-> NotConstructed,
                 refreshTokenCookieOptions |-> NotConstructed,
                 error |-> OK]

cookieOptions(seconds) == [status |-> "set", httpOnly |-> TRUE, maxAge |-> seconds * 1000]
\* AuthenticationService.constructor, part_015 lines 33-55: the three cookie
\* options in turn; the first timeToSeconds that throws ends the constructor
AuthenticationServiceConstructor ==
  /\ config.pc = "env"
  /\ LET session == timeToSeconds(config.SESSION_EXPIRATION)
         access == timeToSeconds(config.ACCESS_TOKEN_EXPIRATION)
         refresh == timeToSeconds(config.REFRESH_TOKEN_EXPIRATION)
     IN config' =
          IF session.status = "threw"
            THEN [config EXCEPT !.pc = "threw", !.error = session.error]
          ELSE IF access.status = "threw"
            THEN [config EXCEPT !.pc = "threw", !.error = access.error,
                                !.sessionCookieOptions = cookieOptions(session.value)]
          ELSE IF refresh.status = "threw"
            THEN [config EXCEPT !.pc = "threw", !.error = refresh.error,
                                !.sessionCookieOptions = cookieOptions(session.value),
                                !.accessTokenCookieOptions = cookieOptions(access.value)]
          ELSE [config EXCEPT !.pc = "constructed",
                              !.sessionCookieOptions = cookieOptions(session.value),
                              !.accessTokenCookieOptions = cookieOptions(access.value),
                              !.refreshTokenCookieOptions = cookieOptions(refresh.value)]
  /\ UNCHANGED <<now, sessions, nextId, procs, authz, crypto>>

NextDuration == AuthenticationServiceConstructor
SpecDuration == InitDuration /\ [][NextDuration]_vars

(* ---------------------- CryptoService.constructor ---------------------- *)
\* CRYPTO_ALGORITHM is any cipher name of node:crypto (no validator names
\* it); a name is written by its parts between the hyphens.  NotSet is a
\* variable the environment does not hold.
NotSet == <<"undefined">>
CipherNames ==
  { <<"aes", "128", "gcm">>, <<"aes", "192", "gcm">>, <<"aes", "256", "gcm">>,
    <<"chacha20", "poly1305">> }
\* the key length, in bytes, createCipheriv (lines 22, 37) requires
cipherKeyLength(algorithm) ==
  CASE algorithm = <<"aes", "128", "gcm">> -> 16
    [] algorithm = <<"aes", "192", "gcm">> -> 24
    [] algorithm = <<"aes", "256", "gcm">> -> 32
    [] algorithm = <<"chacha20", "poly1305">> -> 32
\* algorithm.includes('256'), line 17: no part of the names above holds 256
\* inside a longer part or across a hyphen
includes256(algorithm) == \E k \in 1..Len(algorithm) : algorithm[k] = "256"
\* CRYPTO_KEY is a base64 string, told by the number of its characters
\* before the padding; Buffer.from(keyBase64, 'base64').length, line 16:
\* every character carries 6 bits and an incomplete byte is dropped
bufferFromBase64Length(keyBase64) == (keyBase64.chars * 6) \div 8
Base64Keys == { [set |-> TRUE, chars |-> n] : n \in 0..MaxKeyChars }
KeyNotSet == [set |-> FALSE, chars |-> 0]

InitCryptoKey ==
  /\ now = 0
  /\ sessions = <<>>
  /\ nextId = 1
  /\ procs = [p \in Procs |-> Idle]
  /\ authz = NoAuthz
  /\ config = Configuration
  /\ \E algorithm \in CipherNames \cup {NotSet}, keyBase64 \in Base64Keys \cup {KeyNotSet} :
       crypto = [pc |-> "env", CRYPTO_ALGORITHM |-> algorithm, CRYPTO_KEY |-> keyBase64,
                 algorithm |-> NotSet, keyLength |-> 0, error |-> OK]

\* crypto.service.ts, lines 10-18
CryptoServiceConstructor ==
  /\ crypto.pc = "env"
  /\ LET algorithm == IF crypto.CRYPTO_ALGORITHM = NotSet THEN <<"aes", "256", "gcm">>
                      ELSE crypto.CRYPTO_ALGORITHM
         keyBase64 == crypto.CRYPTO_KEY
         keyLength == bufferFromBase64Length(keyBase64)
     IN crypto' =
          IF ~keyBase64.set \/ keyBase64.chars = 0
            THEN [crypto EXCEPT !.pc = "threw", !.algorithm = algorithm,
                                !.error = Error("CRYPTO_KEY is not set")]
          ELSE IF includes256(algorithm) /\ keyLength # 32
            THEN [crypto EXCEPT !.pc = "threw", !.algorithm = algorithm,
                                !.keyLength = keyLength,
                                !.error = Error("Invalid CRYPTO_KEY")]
          ELSE [crypto EXCEPT !.pc = "constructed", !.algorithm = algorithm,
                              !.keyLength = keyLength]
  /\ UNCHANGED <<now, sessions, nextId, procs, authz, config>>

NextCryptoKey == CryptoServiceConstructor
SpecCryptoKey == InitCryptoKey /\ [][NextCryptoKey]_vars

(* ----------------- AuthorizationService: createRole, updateRole -------- *)
\* The roles collection is a sequence of documents, _id being the position;
\* the schema of RoleEntity puts no unique index on title.  Every await on
\* the collection is one step, and calls interleave between those steps.
Titles == {"admin", "editor"}
NoTitle == ""
RoleCalls == 1..MaxRoleCalls
RoleIdle == [pc |-> "idle", op |-> "", id |-> 0, title |-> NoTitle, response |-> Pending]
Conflict == Http("ROLE_TITLE_ALREADY_EXISTS", 409)
NotFound == Http("ROLE_NOT_FOUND", 404)

InitRoles ==
  /\ now = 0
  /\ sessions = <<>>
  /\ nextId = 1
  /\ procs = [p \in Procs |-> Idle]
  /\ crypto = NoCrypto
  /\ config = Configuration
  /\ authz = [pc |-> "roles", roles |-> <<>>, calls |-> [c \in RoleCalls |-> RoleIdle]]

\* RoleRepositoryService.doesTitleExists, lines 132-135 of the repository
doesTitleExists(roles, title) == \E i \in 1..Len(roles) : roles[i].title = title
\* RoleRepositoryService.findRoleById
findRoleById(roles, id) == IF id \in 1..Len(roles) THEN roles[id] ELSE [title |-> NoTitle]

\* createRole, lines 33-34: the title check
CreateRoleCheck(c, title) ==
  /\ authz.pc = "roles" /\ authz.calls[c].pc = "idle"
  /\ IF doesTitleExists(authz.roles, title)
       THEN authz' = [authz EXCEPT !.calls[c] = [RoleIdle EXCEPT !.pc = "done",
                                     !.op = "createRole", !.title = title,
                                     !.response = Conflict]]
       ELSE authz' = [authz EXCEPT !.calls[c] = [RoleIdle EXCEPT !.pc = "create",
                                     !.op = "createRole", !.title = title]]
  /\ UNCHANGED <<now, sessions, nextId, procs, crypto, config>>

\* createRole, line 37: roleRepositoryService.createRole saves the document
CreateRoleSave(c) ==
  /\ authz.pc = "roles" /\ authz.calls[c].pc = "create"
  /\ authz' = [authz EXCEPT !.roles = Append(@, [title |-> authz.calls[c].title]),
                            !.calls[c].pc = "done", !.calls[c].response = OK]
  /\ UNCHANGED <<now, sessions, nextId, procs, crypto, config>>

\* updateRole, lines 55-59: findRoleById, and whether the title changes
UpdateRoleFind(c, id, title) ==
  /\ authz.pc = "roles" /\ authz.calls[c].pc = "idle"
  /\ LET call == [RoleIdle EXCEPT !.op = "updateRole", !.id = id, !.title = title]
         existingRoleModel == findRoleById(authz.roles, id)
     IN IF id \notin 1..Len(authz.roles)
          THEN authz' = [authz EXCEPT !.calls[c] =
                           [call EXCEPT !.pc = "done", !.response = NotFound]]
        ELSE IF title # NoTitle /\ title # existingRoleModel.title
          THEN authz' = [authz EXCEPT !.calls[c] = [call EXCEPT !.pc = "checkTitle"]]
        ELSE authz' = [authz EXCEPT !.calls[c] = [call EXCEPT !.pc = "update"]]
  /\ UNCHANGED <<now, sessions, nextId, procs, crypto, config>>

\* updateRole, lines 60-61: the title check
UpdateRoleCheckTitle(c) ==
  /\ authz.pc = "roles" /\ authz.calls[c].pc = "checkTitle"
  /\ IF doesTitleExists(authz.roles, authz.calls[c].title)
       THEN authz' = [authz EXCEPT !.calls[c].pc = "done", !.calls[c].response = Conflict]
       ELSE authz' = [authz EXCEPT !.calls[c].pc = "update"]
  /\ UNCHANGED <<now, sessions, nextId, procs, crypto, config>>

\* updateRole, line 65: findByIdAndUpdate with the defined properties of the
\* update model (removeUndefinedProperties leaves an absent title alone)
UpdateRoleWrite(c) ==
  /\ authz.pc = "roles" /\ authz.calls[c].pc = "update"
  /\ LET call == authz.calls[c]
     IN authz' = [authz EXCEPT
                    !.roles = IF call.title = NoTitle THEN @
                              ELSE [@ EXCEPT ![call.id].title = call.title],
                    !.calls[c].pc = "done", !.calls[c].response = OK]
  /\ UNCHANGED <<now, sessions, nextId, procs, crypto, config>>

NextRoles ==
  \/ \E c \in RoleCalls, title \in Titles : CreateRoleCheck(c, title)
  \/ \E c \in RoleCalls : CreateRoleSave(c)
  \/ \E c \in RoleCalls, id \in 1..MaxRoleCalls, title \in Titles \cup {NoTitle} :
       UpdateRoleFind(c, id, title)
  \/ \E c \in RoleCalls : UpdateRoleCheckTitle(c)
  \/ \E c \in RoleCalls : UpdateRoleWrite(c)
SpecRoles == InitRoles /\ [][NextRoles]_vars

(* ------------- hasPermission and its previous implementation ---------- *)
\* the implementation kept in the comment above hasPermission, part_018
\* lines 157-168, on the loaded grants ([].includes is membership, so that
\* the arrays are taken as sets)
previousHasPermission(credentials, requiredPermissions) ==
  LET includedPermissions == credentials.includedPermissions
      excludedPermissions == credentials.excludedPermissions
      roleExcludedPermissions == UNION {r.excludedPermissions : r \in credentials.roles}
      rolePermissions ==
        UNION {r.includedPermissions : r \in credentials.roles} \ roleExcludedPermissions
      rolesWithoutExclusions == rolePermissions \ excludedPermissions
      allInclusions == rolesWithoutExclusions \cup includedPermissions
  IN requiredPermissions \subseteq allInclusions

\* a grant set as getUserAuthorizationCredentials is to return it (the roles
\* populated), and a required set; both implementations are run on them
InitEquivalence ==
  /\ now = 0
  /\ sessions = <<>>
  /\ nextId = 1
  /\ crypto = NoCrypto
  /\ config = Configuration
  /\ procs = [p \in Procs |-> Idle]
  /\ \E user \in UserDocs, roles \in [RoleIds -> RoleDocs], required \in SUBSET Permissions :
       authz = [pc |-> "grants",
                credentials |-> toAuthorizationCredentialsModel(user, roles, TRUE).value,
                required |-> required,
                current |-> NotReturned, previous |-> NotReturned]

\* hasPermission, lines 170-191, on the grant set
HasPermissionCurrent ==
  /\ authz.pc = "grants" /\ authz.current = NotReturned
  /\ authz' = [authz EXCEPT !.current =
                 IF authz.required = {} THEN Returned(TRUE)
                 ELSE Returned(hasPermissionDecision(authz.credentials, authz.required))]
  /\ UNCHANGED <<now, sessions, nextId, procs, crypto, config>>

\* the previous hasPermission, lines 158-168, on the grant set
HasPermissionPrevious ==
  /\ authz.pc = "grants" /\ authz.previous = NotReturned
  /\ authz' = [authz EXCEPT !.previous =
                 Returned(previousHasPermission(authz.credentials, authz.required))]
  /\ UNCHANGED <<now, sessions, nextId, procs, crypto, config>>

NextEquivalence == HasPermissionCurrent \/ HasPermissionPrevious
SpecEquivalence == InitEquivalence /\ [][NextEquivalence]_vars

(* ============================== properties ============================ *)
\* a session is live when it has no tombstone and its window has not passed
Live(doc, t) == doc.deletedAt = NotDeleted /\ ~(doc.endsAt < t)
Terminal(doc, t) == ~Live(doc, t)
LiveSessions(store, t, user, platform) ==
  {i \in DOMAIN store : /\ store[i].user = user /\ store[i].platform = platform
                        /\ Live(store[i], t)}

Done(p, op) == procs[p].op = op /\ procs[p].pc = "done"
Succeeded(p, op) == Done(p, op) /\ procs[p].result = OK
\* the request in slot p took a step
Stepped(p) == procs'[p] # procs[p]
Bearer(accessToken) == [scheme |-> "Bearer", token |-> encryptString(accessToken, SomeNonce)]
CookieOf(i) == encryptString(ObjectId(i), SomeNonce)

(* -------------------------------- C1 ---------------------------------- *)
SameTriple(p, q) ==
  /\ procs[p].sid = procs[q].sid /\ procs[p].at = procs[q].at /\ procs[p].rt = procs[q].rt

\* C1: two refresh calls that present the same still-valid triple and overlap
\* (each read the session before the other wrote): exactly one returns a new
\* pair, the other fails INVALID_REFRESH_TOKEN, and the session holds the
\* winner's pair.  Stated for two calls that signed different pairs, where
\* a second success is a lost update whatever the tokens' encoding.
C1_OneConcurrentRefreshWins ==
  \A q \in Procs : \A p \in procs[q].overlap :
    ( /\ procs[p].op = "refresh" /\ procs[p].pc = "done"
      /\ procs[q].op = "refresh" /\ procs[q].pc = "done"
      /\ SameTriple(p, q)
      /\ procs[p].newAt # procs[q].newAt
      /\ verifyRefreshToken(procs[q].rt, procs[q].at, now) = OK )
    => \E w \in {p, q} : \E l \in {p, q} \ {w} :
         /\ procs[w].result = OK
         /\ procs[l].result = Unauthorized("INVALID_REFRESH_TOKEN")
         /\ procs[w].sid \in DOMAIN sessions
              => /\ sessions[procs[w].sid].accessToken = procs[w].newAt
                 /\ sessions[procs[w].sid].refreshToken = procs[w].newRt

(* -------------------------------- C2 ---------------------------------- *)
\* the refresh in slot q presented the triple that the refresh in slot p had
\* presented, after p had returned its new pair
ReplaysAfter(q, p) ==
  /\ p < q
  /\ Succeeded(p, "refresh")
  /\ procs[q].op = "refresh" /\ p \notin procs[q].overlap
  /\ SameTriple(p, q)

\* C2: once a refresh has succeeded, a later refresh presenting the superseded
\* triple is turned away with INVALID_REFRESH_TOKEN (a request the checks on
\* the stored pair turn away keeps no triple, so none that replays one exists).
C2_SupersededTripleRejected ==
  \A p, q \in Procs : ~ReplaysAfter(q, p)

LatestSignIn(p) ==
  /\ Succeeded(p, "signIn")
  /\ \A q \in Procs : (q > p /\ Succeeded(q, "signIn"))
       => ~(procs[q].user = procs[p].user /\ procs[q].platform = procs[p].platform)

\* C4 (sign-ins one at a time, SpecSeq): after a completed successful signIn
\* for (P, X) the only session of (P, X) that can be live is the one it
\* created; every session that was live for (P, X) before is gone.
C4_OnlyNewSessionLive ==
  \A p \in Procs :
    LatestSignIn(p)
      => LiveSessions(sessions, now, procs[p].user, procs[p].platform) \subseteq {procs[p].sid}

\* a second signIn for the same principal and platform has completed: its
\* session is the live one and the first one's session is no longer stored
C4_Witness ==
  \E p, q \in Procs :
    /\ p < q /\ Succeeded(p, "signIn") /\ LatestSignIn(q)
    /\ procs[q].user = procs[p].user /\ procs[q].platform = procs[p].platform
    /\ procs[p].sid \notin DOMAIN sessions
    /\ LiveSessions(sessions, now, procs[q].user, procs[q].platform) = {procs[q].sid}

(* -------------------------------- C5 ---------------------------------- *)
\* the documents of store that are not of (user, platform)
OtherSessions(store, user, platform) ==
  {i \in DOMAIN store : ~(store[i].user = user /\ store[i].platform = platform)}

\* C5: no step of a signIn for (P, X) deletes, tombstones or modifies a
\* session of P on another platform or a session of another principal.
C5_SignInFrame ==
  [][\A p \in Procs :
       (Stepped(p) /\ procs'[p].op = "signIn")
         => \A i \in OtherSessions(sessions, procs'[p].user, procs'[p].platform) :
              i \in DOMAIN sessions' /\ sessions'[i] = sessions[i]]_vars

\* a signIn has completed while the same principal had a session on another
\* platform and another principal had a session, and both are still stored
C5_Witness ==
  \E p \in Procs : \E i, j \in DOMAIN sessions :
    /\ Succeeded(p, "signIn") /\ i < procs[p].sid /\ j < procs[p].sid
    /\ sessions[i].user = procs[p].user /\ sessions[i].platform # procs[p].platform
    /\ sessions[j].user # procs[p].user

(* -------------------------------- C6 ---------------------------------- *)
\* C6: once every signIn has completed, at most one live session exists for
\* each principal and platform, however the sign-ins interleaved.
C6_OneSurvivorAfterConcurrentSignIns ==
  (\A p \in Procs : procs[p].op = "signIn" => procs[p].pc = "done")
    => \A u \in Users, x \in Platforms : Cardinality(LiveSessions(sessions, now, u, x)) <= 1

(* -------------------------------- C7 ---------------------------------- *)
\* the request arriving in slot p is a verifyRequest or a refresh that the
\* checks on the loaded session let through
Admitted(p) ==
  /\ procs[p].pc = "idle"
  /\ procs'[p].op \in {"verify", "refresh"}
  /\ procs'[p].sid \in DOMAIN sessions

C8_SignOutTombstonesItsSession ==
  \A p \in Procs :
    (Done(p, "signOutRoute") /\ procs[p].arg # EmptyString)
      => /\ procs[p].result = OK
         /\ LET id == decryptString(procs[p].arg).value.n
            IN id \in DOMAIN sessions => sessions[id].deletedAt # NotDeleted

(* -------------------------------- C9 ---------------------------------- *)
\* C9: the write of a successful refresh replaces the stored access token and
\* refresh token of its session and nothing else: no document is added or
\* removed, every other document is as before, the session's principal,
\* platform, startedAt, endsAt and deletedAt are unchanged, and the session
\* id in the response decrypts to the id of the request.
C9_RefreshFrame ==
  [][\A p \in Procs :
       (procs[p].op = "refresh" /\ procs[p].pc = "write" /\ procs'[p].pc = "done")
         => /\ procs'[p].result = OK
            /\ DOMAIN sessions' = DOMAIN sessions
            /\ \A i \in DOMAIN sessions :
                 IF i = procs[p].sid
                   THEN sessions'[i] = [sessions[i] EXCEPT !.accessToken = procs[p].newAt,
                                                           !.refreshToken = procs[p].newRt]
                   ELSE sessions'[i] = sessions[i]
            /\ \A n1, n2, n3 \in Nonces :
                 decryptString(generateAuthenticationCredentialsModel(
                                 procs'[p].newAt, procs'[p].newRt, procs'[p].sid, n1, n2, n3).sessionId).value
                   = ObjectId(procs[p].sid)]_vars

\* a refresh has rotated the pair of a stored session: the tokens are new and
\* the window is the one signIn set
C9_Witness ==
  \E p \in Procs :
    /\ Succeeded(p, "refresh") /\ procs[p].sid \in DOMAIN sessions
    /\ procs[p].newAt # procs[p].at
    /\ sessions[procs[p].sid].accessToken = procs[p].newAt
    /\ sessions[procs[p].sid].refreshToken = procs[p].newRt
    /\ sessions[procs[p].sid].endsAt = sessions[procs[p].sid].startedAt + config.sessionExpiration
    /\ sessions[procs[p].sid].startedAt < procs[p].newAt.iat

(* -------------------------------- C10 --------------------------------- *)
\* for a session whose endsAt is in the past, the guard and refresh answer
\* SESSION_EXPIRED whatever tokens that pass transport decryption are
\* presented (refresh decrypts the tokens after this test, so there an
\* undecryptable token is answered the same way)
ExpiredSessionRejected ==
  \A i \in DOMAIN sessions :
    sessions[i].endsAt < now
      => /\ \A a \in AccessTokens :
              canActivate(sessions, CookieOf(i), Bearer(a), now) = Unauthorized("SESSION_EXPIRED")
         /\ \A a \in AccessTokens \cup {Garbage}, r \in RefreshTokens \cup {Garbage} :
              refreshChecks(sessions, CookieOf(i),
                            IF a = Garbage THEN a ELSE encryptString(a, SomeNonce),
                            IF r = Garbage THEN r ELSE encryptString(r, SomeNonce), now)
                = Unauthorized("SESSION_EXPIRED")

\* C10: every verifyRequest and every refresh against a session whose endsAt
\* is in the past fails with SESSION_EXPIRED whatever decryptable tokens are
\* presented, the stored unexpired ones included: none is let through, and
\* the step that answers SESSION_EXPIRED leaves the session store as it was.
C10_ExpiredSessionRejected ==
  [][/\ ExpiredSessionRejected'
     /\ \A p \in Procs :
          /\ Admitted(p) => ~(sessions[procs'[p].sid].endsAt < now)
          /\ (procs[p].pc = "idle" /\ procs'[p].op \in {"verify", "refresh"}
                /\ procs'[p].result = Unauthorized("SESSION_EXPIRED"))
               => sessions' = sessions]_vars

\* a session is past endsAt while the access token it stores is still within
\* its TTL, and a verifyRequest was answered SESSION_EXPIRED
C10_Witness ==
  \E i \in DOMAIN sessions : \E p \in Procs :
    /\ DOMAIN sessions = {i}
    /\ sessions[i].endsAt < now
    /\ verifyAccessToken(sessions[i].accessToken, now)
    /\ Done(p, "verify") /\ procs[p].result = Unauthorized("SESSION_EXPIRED")

(* -------------------------------- C11 --------------------------------- *)
\* C11: signIn with an existing identifier and a wrong password ends at once
\* with 401 INVALID_CREDENTIALS and leaves the session collection as it was:
\* the request never reaches invalidateOtherSessions or createSession.
C11_WrongSecretNoEffect ==
  [][\A p \in Procs, i \in Users, pw \in {"pwA", "pwB"}, x \in Platforms :
       (pw # Passwords[i] /\ SignInIssue(p, i, pw, x))
         => /\ procs'[p].pc = "done"
            /\ procs'[p].result = Unauthorized("INVALID_CREDENTIALS")
            /\ sessions' = sessions /\ nextId' = nextId]_vars

\* a signIn was turned away with 401 INVALID_CREDENTIALS after an earlier
\* signIn had created a session, and that session is still stored and live
C11_Witness ==
  \E p, q \in Procs :
    /\ q < p
    /\ Succeeded(q, "signIn") /\ procs[q].sid \in DOMAIN sessions
    /\ Live(sessions[procs[q].sid], now)
    /\ Done(p, "signIn") /\ procs[p].result = Unauthorized("INVALID_CREDENTIALS")
    /\ Cardinality(DOMAIN sessions) = 1 /\ nextId = 2

(* -------------------------------- C12 --------------------------------- *)
\* C12: every signIn that fails answers 401 INVALID_CREDENTIALS, the same
\* response for an unknown identifier and for a wrong password.
C12_SameErrorForUnknownAndWrong ==
  \A p \in Procs :
    (Done(p, "signIn") /\ procs[p].result # OK)
      => procs[p].result = Unauthorized("INVALID_CREDENTIALS")

(* -------------------------------- C13 --------------------------------- *)
\* C13: for a session id the server issued whose document is no longer in
\* the collection, the guard answers 401 INVALID_SESSION_ID or 401
\* SESSION_NOT_FOUND whatever access token is presented.
C13_AbsentSessionIs401 ==
  \A i \in (1..(nextId - 1)) \ DOMAIN sessions : \A a \in AccessTokens :
    canActivate(sessions, CookieOf(i), Bearer(a), now)
      \in {Unauthorized("INVALID_SESSION_ID"), Unauthorized("SESSION_NOT_FOUND")}

RefreshVerdict(i, a, r) ==
  refreshChecks(sessions, CookieOf(i), encryptString(a, SomeNonce), encryptString(r, SomeNonce), now)

\* on a live session, refresh answers INVALID_ACCESS_TOKEN for every access
\* token the server signed other than the stored one (presented with the
\* refresh token signed with it, or with the stored refresh token), and
\* INVALID_REFRESH_TOKEN for the stored access token with every refresh token
\* the server signed other than the stored one
StoredPairRequired ==
  \A i \in DOMAIN sessions :
    Live(sessions[i], now)
      => /\ \A a \in AccessTokens \ {sessions[i].accessToken} :
              \A r \in {generateRefreshToken(a.user, a, a.iat), sessions[i].refreshToken} :
                RefreshVerdict(i, a, r) = Unauthorized("INVALID_ACCESS_TOKEN")
         /\ \A r \in RefreshTokens \ {sessions[i].refreshToken} :
              RefreshVerdict(i, sessions[i].accessToken, r) = Unauthorized("INVALID_REFRESH_TOKEN")

\* C15: refresh on a live session fails INVALID_ACCESS_TOKEN when the access
\* token is not the stored one and INVALID_REFRESH_TOKEN when only the
\* refresh token is not the stored one; the request that is answered so ends
\* there: it signs no pair and the collection is as it was.  (The answers
\* depend on the collection and the clock only, so they are examined after
\* every step that changes either.)
C15_StoredPairRequired ==
  [][/\ (sessions' # sessions \/ now' # now) => StoredPairRequired'
     /\ \A p \in Procs :
          (procs[p].pc = "idle" /\ procs'[p].op = "refresh"
             /\ procs'[p].result \in {Unauthorized("INVALID_ACCESS_TOKEN"),
                                      Unauthorized("INVALID_REFRESH_TOKEN")})
            => /\ procs'[p].pc = "done"
               /\ procs'[p].newAt = NoToken /\ procs'[p].newRt = NoToken
               /\ sessions' = sessions]_vars

\* a refresh rotated the pair of a session that is still live, and a later
\* refresh was answered INVALID_REFRESH_TOKEN; the session holds the rotated pair
C15_Witness ==
  \E p, q \in Procs :
    /\ p < q /\ Succeeded(p, "refresh") /\ procs[p].newAt # procs[p].at
    /\ DOMAIN sessions = {procs[p].sid}
    /\ Live(sessions[procs[p].sid], now)
    /\ sessions[procs[p].sid].accessToken = procs[p].newAt
    /\ sessions[procs[p].sid].refreshToken = procs[p].newRt
    /\ Done(q, "refresh") /\ procs[q].result = Unauthorized("INVALID_REFRESH_TOKEN")

(* -------------------------------- C16 --------------------------------- *)
\* the session id a signOut request names: the service is handed the id, the
\* route the encrypted cookie
TargetOf(p) ==
  LET id == IF procs[p].op = "signOutRoute" THEN decryptString(procs[p].arg).value
                                            ELSE procs[p].arg
  IN IF id.form = "oid" THEN id.n ELSE 0

\* C16: a signOut on a session that is already terminal (tombstoned or past
\* endsAt) returns success: the route lets the request through with the
\* session's cookie and stored access token, the service finds the session
\* and goes on to the delete, which answers OK and leaves the session
\* terminal as it was before.
C16_SignOutIdempotent ==
  [][\A p \in Procs :
       /\ \A i \in DOMAIN sessions :
            ( /\ Terminal(sessions[i], now)
              /\ SignOutRoute(p, CookieOf(i), Bearer(sessions[i].accessToken)) )
            => procs'[p].pc = "load"
       /\ ( /\ procs[p].op \in {"signOut", "signOutRoute"} /\ procs[p].pc = "load"
            /\ Stepped(p)
            /\ TargetOf(p) \in DOMAIN sessions
            /\ Terminal(sessions[TargetOf(p)], now) )
          => procs'[p].pc = "delete"
       /\ ( /\ procs[p].op \in {"signOut", "signOutRoute"} /\ procs[p].pc = "delete"
            /\ Stepped(p)
            /\ procs[p].sid \in DOMAIN sessions
            /\ Terminal(sessions[procs[p].sid], now) )
          => /\ procs'[p].result = OK
             /\ procs[p].sid \in DOMAIN sessions'
             /\ Terminal(sessions'[procs[p].sid], now)]_vars

(* -------------------------------- C17 --------------------------------- *)
\* C17: the pair a signIn or a refresh returned for one session is accepted
\* neither by the guard nor by refresh under the id of another session.
C17_TokensBoundToSession ==
  \A p \in Procs :
    (Succeeded(p, "signIn") \/ Succeeded(p, "refresh"))
      => \A j \in DOMAIN sessions \ {procs[p].sid} :
           /\ canActivate(sessions, CookieOf(j), Bearer(procs[p].newAt), now) # OK
           /\ refreshChecks(sessions, CookieOf(j), encryptString(procs[p].newAt, SomeNonce),
                            encryptString(procs[p].newRt, SomeNonce), now) # OK

(* -------------------------------- C18 --------------------------------- *)
\* C18: a hasPermission call with an empty required set returns true at
\* once, whatever the user document and the role documents hold (and without
\* looking them up).
C18_EmptyRequiredGranted ==
  (authz.pc # "idle" /\ authz.required = {})
    => authz.pc = "done" /\ authz.result = Returned(TRUE)

\* the call returned true on an empty required set for a user with no roles,
\* no included permissions and no administratorAccess
C18_Witness ==
  /\ authz.pc = "done" /\ authz.required = {} /\ authz.result = Returned(TRUE)
  /\ authz.userId = "alice"
  /\ authz.user.roles = {} /\ authz.user.includedPermissions = {}
  /\ ~authz.user.administratorAccess

(* -------------------------------- C19 --------------------------------- *)
\* C19: for a user whose document has administratorAccess set, hasPermission
\* returns true for every non-empty required set, whatever is excluded at
\* user level or in a role.
C19_AdministratorBypass ==
  ( /\ authz.pc = "done" /\ authz.userId = "alice"
    /\ authz.user.administratorAccess /\ authz.required # {} )
    => authz.result = Returned(TRUE)

(* -------------------------------- C20 --------------------------------- *)
\* the permissions excluded for the user: at user level or in an assigned role
ExcludedFor(user, roles) ==
  user.excludedPermissions \cup UNION {roles[r].excludedPermissions : r \in user.roles}

\* the user of the example: roles R1 (includes A and B) and R2 (excludes A),
\* nothing at user level, no administratorAccess
ExampleGrants ==
  /\ authz.user = [roles |-> {"R1", "R2"}, includedPermissions |-> {},
                   excludedPermissions |-> {}, administratorAccess |-> FALSE]
  /\ authz.roles["R1"] = [includedPermissions |-> {"A", "B"}, excludedPermissions |-> {}]
  /\ authz.roles["R2"] = [includedPermissions |-> {}, excludedPermissions |-> {"A"}]

\* C20: for a user without administratorAccess, hasPermission returns false
\* as soon as a required permission is excluded at user level or in any
\* assigned role; for the user of the example it returns false on {A} and
\* true on {B}.
C20_ExclusionAbsolute ==
  (authz.pc = "done" /\ authz.userId = "alice" /\ ~authz.user.administratorAccess)
    => /\ authz.required \cap ExcludedFor(authz.user, authz.roles) # {}
            => authz.result = Returned(FALSE)
       /\ (ExampleGrants /\ authz.required = {"A"}) => authz.result = Returned(FALSE)
       /\ (ExampleGrants /\ authz.required = {"B"}) => authz.result = Returned(TRUE)

(* -------------------------------- C21 --------------------------------- *)
\* the effective grants of the user: what the assigned roles include and no
\* assigned role excludes, with what the user includes and does not exclude
EffectiveFor(user, roles) ==
  ( UNION {roles[r].includedPermissions : r \in user.roles}
      \ UNION {roles[r].excludedPermissions : r \in user.roles} )
    \cup (user.includedPermissions \ user.excludedPermissions)

\* C21: for a user without administratorAccess and a non-empty required set
\* R, hasPermission returns true exactly when R is within the effective
\* grants and holds nothing excluded at user level or in an assigned role,
\* and false otherwise.
C21_GrantedIffEffective ==
  ( /\ authz.pc = "done" /\ authz.userId = "alice"
    /\ ~authz.user.administratorAccess /\ authz.required # {} )
    => authz.result
         = Returned( /\ authz.required \subseteq EffectiveFor(authz.user, authz.roles)
                     /\ authz.required \cap ExcludedFor(authz.user, authz.roles) = {} )

(* -------------------------------- C22 --------------------------------- *)
\* C22: on a route declared with SetRequiredPermissions(P) behind
\* AuthorizationGuard, the handler runs only if hasPermission of the
\* authenticated user for the declared set P is true, and when it is false
\* the request is answered 403 FORBIDDEN.
C22_GuardEnforcesDeclared ==
  authz.pc = "done"
    => LET outcome == hasPermission(authz.userId, [defined |-> TRUE, value |-> authz.declared],
                                    authz.user, authz.roles)
       IN /\ authz.result = Returned(TRUE) => outcome = Returned(TRUE)
          /\ outcome = Returned(FALSE) => authz.result = Threw(Forbidden)

(* -------------------------------- C23 --------------------------------- *)
\* a string without an unpaired surrogate
RECURSIVE WellFormed(_)
WellFormed(value) ==
  IF value = <<>> THEN TRUE
  ELSE IF Head(value) = "H"
    THEN Len(value) >= 2 /\ value[2] = "L" /\ WellFormed(Tail(Tail(value)))
  ELSE Head(value) # "L" /\ WellFormed(Tail(value))

\* C23 as stated: for every string s, the empty one included, decryptString
\* of encryptString(s) is s.
C23_RoundTripEveryString ==
  (crypto.pc = "opened" /\ crypto.flipped = 0)
    => crypto.result = Decrypted(crypto.value)

\* C23: for every well-formed string s (no unpaired surrogate), the empty
\* one included, decryptString of encryptString(s) is s, for every iv.
C23_RoundTrip ==
  (crypto.pc = "opened" /\ crypto.flipped = 0 /\ WellFormed(crypto.value))
    => crypto.result = Decrypted(crypto.value)

\* the empty string came back from a token of iv and tag alone
C23_Witness ==
  /\ crypto.pc = "opened" /\ crypto.flipped = 0
  /\ crypto.value = <<>> /\ Len(fromBase64(crypto.token)) = 2
  /\ crypto.result = Decrypted(<<>>)

(* -------------------------------- C24 --------------------------------- *)
\* C24: decryptString of an encryptString output with one bit flipped in
\* the iv, the tag or the ciphertext fails: it returns no plaintext.
C24_FlippedBitRejected ==
  (crypto.pc = "opened" /\ crypto.flipped # 0) => ~crypto.result.ok

\* a token of a two-character string was decrypted after a bit of its
\* ciphertext had been flipped
C24_Witness ==
  /\ crypto.pc = "opened"
  /\ crypto.flipped > 8
  /\ crypto.value = <<"a", "a">>
  /\ ~crypto.result.ok

(* -------------------------------- C25 --------------------------------- *)
\* a non-empty string that decryptString cannot decrypt
Undecryptable(token) == token # EmptyString /\ ~decryptString(token).ok

\* C25: a guarded request or a refresh that carries a session id or a token
\* that decryptString cannot decrypt is answered with a 401 (one of the
\* session / token codes), never with the failure of the decryption.
C25_DecryptFailureIs401 ==
  /\ \A c \in Cookies, h \in Headers :
       (Undecryptable(c) \/ (h.scheme = "Bearer" /\ Undecryptable(h.token)))
         => canActivate(sessions, c, h, now).status = 401
  /\ \A c \in Sealed(SessionIdStrings), a \in Sealed(HeldAccessTokens),
        r \in Sealed(HeldRefreshTokens) :
       (Undecryptable(c) \/ Undecryptable(a) \/ Undecryptable(r))
         => refreshChecks(sessions, c, a, r, now).status = 401

(* -------------------------------- C26 --------------------------------- *)
\* C26: a request to the signOut route that the guard does not let through
\* (no or undecryptable cookie or token, absent or expired session, an access
\* token that is not the session's current one or is expired) ends with the
\* guard's answer and changes no session; the only step of a signOut request
\* that writes to the collection is the delete, which the request reaches
\* through the guard alone.
C26_SignOutOnlyBehindGuard ==
  [][\A p \in Procs :
       /\ \A c \in Cookies, h \in Headers :
            (SignOutRoute(p, c, h) /\ canActivate(sessions, c, h, now) # OK)
              => /\ procs'[p].pc = "done"
                 /\ procs'[p].result = canActivate(sessions, c, h, now)
                 /\ sessions' = sessions
       /\ (Stepped(p) /\ procs'[p].op = "signOutRoute" /\ sessions' # sessions)
            => procs[p].pc = "delete"
       /\ (procs[p].op = "signOutRoute" /\ procs[p].pc = "done") => ~Stepped(p)]_vars

\* a signOut request presenting the cookie of a live session with an access
\* token that is not the session's was answered INVALID_ACCESS_TOKEN, and
\* the session is stored without a tombstone
C26_Witness ==
  \E p \in Procs : \E i \in DOMAIN sessions :
    /\ Done(p, "signOutRoute")
    /\ procs[p].result = Unauthorized("INVALID_ACCESS_TOKEN")
    /\ Live(sessions[i], now)
    /\ \A j \in DOMAIN sessions : sessions[j].deletedAt = NotDeleted

(* -------------------------------- C27 --------------------------------- *)
\* the request in slot p returned credentials (signIn or refresh), and its
\* session is live and still holds the pair it returned
HoldsReturnedPair(p) ==
  /\ Succeeded(p, "signIn") \/ Succeeded(p, "refresh")
  /\ procs[p].sid \in DOMAIN sessions
  /\ Live(sessions[procs[p].sid], now)
  /\ sessions[procs[p].sid].accessToken = procs[p].newAt
  /\ sessions[procs[p].sid].refreshToken = procs[p].newRt

\* the guard lets the returned session id and access token of p through, as
\* the response carried them, and attaches the principal of p
ReturnedCredentialsAccepted(p) ==
  \A n1, n2, n3 \in Nonces :
    LET cookie == Response(p, n1, n2, n3).sessionId
        header == [scheme |-> "Bearer", token |-> Response(p, n1, n2, n3).accessToken]
    IN /\ canActivate(sessions, cookie, header, now) = OK
       /\ Presented(cookie, header).sid = procs[p].sid
       /\ Presented(cookie, header).at.user = procs[p].user

SessionCheckAnswers ==
  {OK, Unauthorized("SESSION_EXPIRED"), Unauthorized("INVALID_ACCESS_TOKEN"),
   Unauthorized("EXPIRED_ACCESS_TOKEN")}

C29_StoredPairOfSessionPrincipal ==
  \A i \in DOMAIN sessions :
    /\ sessions[i].accessToken.user = sessions[i].user
    /\ sessions[i].refreshToken.user = sessions[i].user

\* two refreshes in a row rotated the pair of one session, each signing new
\* tokens, and the session holds the pair of the second
C29_Witness ==
  \E p, q \in Procs :
    /\ p < q /\ Succeeded(p, "refresh") /\ Succeeded(q, "refresh")
    /\ procs[p].sid = procs[q].sid /\ procs[q].sid \in DOMAIN sessions
    /\ procs[q].at = procs[p].newAt /\ procs[q].newAt # procs[q].at
    /\ procs[p].newAt # procs[p].at
    /\ sessions[procs[q].sid].accessToken = procs[q].newAt
    /\ sessions[procs[q].sid].refreshToken = procs[q].newRt
    /\ sessions[procs[q].sid].user = procs[q].newAt.user

(* -------------------------------- C30 --------------------------------- *)
\* C30 as stated: for every session, endsAt - startedAt is the configured
\* SESSION_EXPIRATION in seconds.
C30_WindowIsSessionExpiration ==
  \A i \in DOMAIN sessions :
    sessions[i].endsAt - sessions[i].startedAt = config.sessionExpiration

\* C30: the session a signIn creates has startedAt equal to the clock when
\* signIn began to build the record and endsAt equal to the clock when it
\* finished plus the configured SESSION_EXPIRATION in seconds, so that for
\* every session endsAt - startedAt is SESSION_EXPIRATION, or one second
\* more when the clock passed to the next second in between.
C30_EndsAtIsClockPlusSessionExpiration ==
  [][/\ \A p \in Procs :
          (procs[p].op = "signIn" /\ procs[p].pc = "create" /\ Stepped(p))
            => /\ DOMAIN sessions' = DOMAIN sessions \cup {nextId}
               /\ sessions'[nextId].startedAt = now
               /\ sessions'[nextId].endsAt = now' + config.sessionExpiration
     /\ \A i \in DOMAIN sessions' :
          sessions'[i].endsAt - sessions'[i].startedAt
            \in {config.sessionExpiration, config.sessionExpiration + 1}]_vars

\* two sessions are stored: one whose window is SESSION_EXPIRATION and one
\* whose window is a second longer
C30_Witness ==
  \E i, j \in DOMAIN sessions :
    /\ sessions[i].endsAt - sessions[i].startedAt = config.sessionExpiration
    /\ sessions[j].endsAt - sessions[j].startedAt = config.sessionExpiration + 1

(* ------------------------------- C31 ---------------------------------- *)
\* the duration the model varies, and what the constructor made of it
VariedDuration == config[config.key]
VariedCookieOptions ==
  CASE config.key = "SESSION_EXPIRATION" -> config.sessionCookieOptions
    [] config.key = "ACCESS_TOKEN_EXPIRATION" -> config.accessTokenCookieOptions
    [] config.key = "REFRESH_TOKEN_EXPIRATION" -> config.refreshTokenCookieOptions
\* the tokens of a string that is made of '<number><unit>' tokens, separated
\* by nothing or by white space; <<>> when the string is not made of tokens
RECURSIVE tokensFrom(_, _)
tokensFrom(chars, i) ==
  LET j == spacesEnd(chars, i)
      m == matchAt(chars, j)
  IN IF j > Len(chars) \/ ~m.matched THEN <<>>
     ELSE IF spacesEnd(chars, m.end) > Len(chars) THEN <<m>>
     ELSE LET rest == tokensFrom(chars, m.end)
          IN IF rest = <<>> THEN <<>> ELSE <<m>> \o rest
TokensOf(timeString) ==
  IF timeString.type = "string" THEN tokensFrom(toLowerCase(timeString.value), 1)
  ELSE <<>>
RepeatsUnit(tokens) ==
  \E k, l \in 1..Len(tokens) : k # l /\ tokens[k].unit = tokens[l].unit
\* the floor of the sum of number times unit-seconds, in exact arithmetic:
\* the whole seconds of every token, and the hundredths that remain
RECURSIVE wholeSeconds(_, _)
wholeSeconds(tokens, k) ==
  IF k > Len(tokens) THEN 0
  ELSE LET dec == decimalOf(tokens[k].number)
       IN (dec.numerator * timeUnits[tokens[k].unit]) \div dec.denominator
            + wholeSeconds(tokens, k + 1)
RECURSIVE hundredths(_, _)
hundredths(tokens, k) ==
  IF k > Len(tokens) THEN 0
  ELSE LET dec == decimalOf(tokens[k].number)
       IN ((dec.numerator * timeUnits[tokens[k].unit]) % dec.denominator)
               * (100 \div dec.denominator)
            + hundredths(tokens, k + 1)
FloorOfSum(tokens) == wholeSeconds(tokens, 1) + hundredths(tokens, 1) \div 100
HasToken(timeString) ==
  timeString.type = "string" /\ matchAll(toLowerCase(timeString.value), 1) # <<>>

\* C31: once the constructor has run, a duration made of '<number><unit>'
\* tokens with no unit repeated has given the cookie a maxAge of 1000 times
\* the floor of the sum of number times unit-seconds, and a duration that is
\* not a string, is empty, holds no token or repeats a unit has made the
\* constructor throw.
C31_MaxAgeIsFloorOfSum ==
  config.pc \in {"constructed", "threw"} =>
    LET tokens == TokensOf(VariedDuration)
    IN /\ (tokens # <<>> /\ ~RepeatsUnit(tokens)) =>
            /\ config.pc = "constructed"
            /\ VariedCookieOptions.maxAge = FloorOfSum(tokens) * 1000
       /\ (~HasToken(VariedDuration)
             \/ RepeatsUnit(matchAll(toLowerCase(VariedDuration.value), 1))) =>
            config.pc = "threw"

(* ------------------------------- C32 ---------------------------------- *)
\* C32: the constructor throws whenever CRYPTO_KEY is not set or the decoded
\* key is not as long as the configured algorithm requires; no constructed
\* CryptoService holds a key of another length.
C32_NoInstanceWithMismatchedKey ==
  /\ crypto.pc = "constructed" => crypto.keyLength = cipherKeyLength(crypto.algorithm)
  /\ (crypto.pc \in {"constructed", "threw"}
        /\ (~crypto.CRYPTO_KEY.set
              \/ bufferFromBase64Length(crypto.CRYPTO_KEY) # cipherKeyLength(crypto.algorithm)))
       => crypto.pc = "threw"

(* ------------------------------- C33 ---------------------------------- *)
\* C33: whatever the interleaving of createRole and updateRole calls, no two
\* roles of the collection have the same title.
C33_RoleTitlesUnique ==
  authz.pc = "roles" =>
    \A i, j \in 1..Len(authz.roles) :
      i # j => authz.roles[i].title # authz.roles[j].title

(* ------------------------------- C34 ---------------------------------- *)
\* C34: a refresh call that fails leaves the session collection as it was:
\* the step in which a refresh ends with an error changes no session, the
\* call has not reached its write before that step, and the step in which
\* its checks on the loaded session pass changes no session either.
C34_FailedRefreshLeavesStore ==
  [][\A p \in Procs :
       /\ (/\ procs[p].pc # "done"
           /\ procs'[p].op = "refresh" /\ procs'[p].pc = "done"
           /\ procs'[p].result # OK)
            => (sessions' = sessions /\ procs[p].pc \in {"idle", "issue"})
       /\ (procs[p].pc = "idle" /\ procs'[p].op = "refresh" /\ procs'[p].pc = "issue")
            => sessions' = sessions]_vars

\* a refresh has failed at verifyRefreshToken, after its checks on the
\* session passed, and the collection holds a session
C34_Witness ==
  \E p \in Procs :
    /\ procs[p].op = "refresh" /\ procs[p].pc = "done"
    /\ procs[p].result = Unauthorized("EXPIRED_REFRESH_TOKEN")
    /\ procs[p].sid \in DOMAIN sessions

(* ------------------------------- C35 ---------------------------------- *)
\* C35: in every reachable state the refresh token stored in a session
\* carries, as the access token it refers back to, the access token stored
\* in the same session.
C35_StoredRefreshTokenRefersToStoredAccessToken ==
  \A i \in DOMAIN sessions : sessions[i].refreshToken.accessToken = sessions[i].accessToken

\* two refreshes of one session overlapped, signed different pairs and have
\* both written
C35_Witness ==
  \E p, q \in Procs :
    /\ p # q
    /\ procs[p].op = "refresh" /\ procs[p].pc = "done" /\ procs[p].result = OK
    /\ procs[q].op = "refresh" /\ procs[q].pc = "done" /\ procs[q].result = OK
    /\ q \in procs[p].overlap
    /\ procs[p].sid = procs[q].sid /\ procs[p].sid \in DOMAIN sessions
    /\ procs[p].newAt # procs[q].newAt

(* ------------------------------- C36 ---------------------------------- *)
\* C36: the step in which a refresh answers with success leaves its new
\* pair stored in its session, and that session exists and carries no
\* tombstone.
C36_RefreshSuccessMeansStored ==
  [][\A p \in Procs :
       (/\ procs[p].op = "refresh" /\ procs[p].pc = "write"
        /\ procs'[p].pc = "done" /\ procs'[p].result = OK)
         => /\ procs[p].sid \in DOMAIN sessions'
            /\ sessions'[procs[p].sid].deletedAt = NotDeleted
            /\ sessions'[procs[p].sid].accessToken = procs[p].newAt
            /\ sessions'[procs[p].sid].refreshToken = procs[p].newRt]_vars

(* ------------------------------- C37 ---------------------------------- *)
\* C37: the pair a signIn or a refresh signs differs from every token the
\* collection holds at that moment, and the pair a refresh writes differs
\* from the pair it replaces.
C37_IssuedPairIsFresh ==
  [][\A p \in Procs :
       /\ (procs'[p].op \in {"signIn", "refresh"} /\ procs'[p].newAt # NoToken
             /\ procs[p].newAt = NoToken)
            => \A i \in DOMAIN sessions :
                 /\ sessions[i].accessToken # procs'[p].newAt
                 /\ sessions[i].refreshToken # procs'[p].newRt
       /\ (procs[p].op = "refresh" /\ procs[p].pc = "write" /\ procs'[p].pc = "done"
             /\ procs[p].sid \in DOMAIN sessions)
            => <<procs[p].newAt, procs[p].newRt>>
                 # <<sessions[procs[p].sid].accessToken, sessions[procs[p].sid].refreshToken>>]_vars

(* ------------------------------- C38 ---------------------------------- *)
BothReturned ==
  /\ authz.pc = "grants"
  /\ authz.current # NotReturned /\ authz.previous # NotReturned
\* the permissions the user document includes although the user document or
\* an assigned role excludes them
IncludedYetExcluded(credentials) ==
  credentials.includedPermissions
    \cap (credentials.excludedPermissions
            \cup UNION {r.excludedPermissions : r \in credentials.roles})

\* C38 as stated: for every grant set without administratorAccess and every
\* non-empty required set, hasPermission and its previous implementation
\* return the same.
C38_SameAsPrevious ==
  (BothReturned /\ ~authz.credentials.administratorAccess /\ authz.required # {})
    => authz.current = authz.previous

\* C38: for a grant set without administratorAccess and a non-empty required
\* set, hasPermission grants only what its previous implementation granted,
\* and the two return the same unless a required permission is included in
\* the user document and excluded by the user document or an assigned role.
C38_SameAsPreviousUnlessIncludedYetExcluded ==
  (BothReturned /\ ~authz.credentials.administratorAccess /\ authz.required # {})
    => /\ authz.current.value => authz.previous.value
       /\ authz.required \cap IncludedYetExcluded(authz.credentials) = {}
            => authz.current = authz.previous

\* both implementations have granted a required permission that an assigned
\* role includes, while that role excludes some permission and the user
\* document holds an exclusion as well
C38_Witness ==
  /\ BothReturned /\ ~authz.credentials.administratorAccess /\ authz.required # {}
  /\ authz.current = Returned(TRUE) /\ authz.previous = Returned(TRUE)
  /\ \E r \in authz.credentials.roles :
       r.includedPermissions \cap authz.required # {} /\ r.excludedPermissions # {}
  /\ authz.credentials.excludedPermissions # {}
====
